---- MODULE Spec2Model ----
(***************************************************************************)
(* The bridge gateway of opencode-webui: the WebSocket route (connection   *)
(* table, message dispatch, notification fan-out), the ACP protocol        *)
(* handler (session table, JSON-RPC correlator) and the process manager    *)
(* (process table, handler table, stdout/stderr/close listeners), together *)
(* with the agent subprocesses and the clients as the environment.         *)
(*                                                                         *)
(* Node runs one callback at a time and drains the microtask queue before  *)
(* the next I/O event, so an action here is one event callback followed by *)
(* every promise continuation it makes runnable, up to the next await that *)
(* waits for I/O (a subprocess reply, a timer, a process exit).            *)
(***************************************************************************)
EXTENDS Integers, Sequences, FiniteSets, TLC

\* ---------------------------------------------------------------- bounds
MaxCreates == 1   \* createSession / initialize calls, one subprocess each
MaxEvents == 3    \* prompt, cancel and close frames of the clients and unsolicited
                  \* output of the agents (updates, requests, stderr), together
MaxSessions == 2  \* createSession / initialize calls where sessions are set against
                  \* each other (SpecPair)

ConnIds == {"cA", "cB"}
K == 1..MaxSessions

\* uuidv4() of the k-th createSession / initialize call
T(k) == <<"T", k>>
\* the session id the k-th agent may answer session/new with
S(k) == <<"S", k>>
NoSid == <<"none", 0>>

\* envelope id of a prompt frame sent as the n-th event; the placeholder of the route
R(n) == <<"R", n>>
NoRid == <<"none", 0>>
Unknown == <<"unknown", 0>>
FreshUuid == <<"uuid", 0>>

VARIABLES
  connections,          \* routes/websocket: keys of the connections Map
  wsConnection,         \* the WebSocketConnection objects (and their sockets, timers)
  wsPendingRequests,    \* routes/websocket: pendingRequests Map, insertion order
  sessions,             \* ACPProtocolHandler.sessions Map, insertion order
  sessionInfo,          \* the SessionInfo objects the Map refers to
  pendingRequests,      \* ACPProtocolHandler.pendingRequests Map, insertion order
  notificationHandlers, \* ACPProtocolHandler.notificationHandlers Map
  processes,            \* OpenCodeProcessManager.processes Map
  processInfo,          \* the OpenCodeProcess objects and their child processes
  handlers,             \* OpenCodeProcessManager.handlers Map
  call,                 \* the createSession / initialize invocations (position, locals)
  killWaiters,          \* close listeners added by killProcess, per child process
  killTimers,           \* 5 s timers of killProcess not yet fired or cleared, per child process
  agent,                \* what each agent has received and not yet answered
  nCreates, nEvents,
  closeAcked,           \* history: ids of existing sessions whose close was acknowledged
  client,               \* the web client: ACPProvider's id cache, WebSocketProvider's socket
  made,                 \* the message the last call of a message helper returned or was given
  out,                  \* envelopes written to client sockets by the last event
  wrote,                \* lines written to subprocess stdin by the last event
  last                  \* the last event and what its dispatch looked up

vars == <<connections, wsConnection, wsPendingRequests, sessions, sessionInfo,
          pendingRequests, notificationHandlers, processes, processInfo, handlers,
          call, killWaiters, killTimers, agent, nCreates, nEvents, closeAcked,
          client, made, out, wrote, last>>

\* --------------------------------------------------------- the web client
MAX_PROCESSED_IDS == 1000
MaxIds == 1002        \* distinct envelope ids the client is handed
MaxTokens == 3        \* refreshed tokens the bridge hands out
maxReconnectAttempts == 5

\* processedMessageIds: the Set, in insertion order; handled, processed: the id
\* of the envelope the effect last ran for (0: none) and whether it went on to
\* the switch; issued, evicted: the ids numbered so far and the id last evicted
\* ws: the WebSocket's readyState ("none" before connect()); reconnectTimeout:
\* the delay of the pending reconnect timer in ms (0: none); tokens: how many
\* refreshed tokens the provider has been given; authError: onAuthError called
BlankSocket ==
  [ws |-> "none", connectionStatus |-> "connecting", reconnectAttempts |-> 0,
   reconnectTimeout |-> 0, isRefreshing |-> FALSE, tokens |-> 0,
   authError |-> FALSE]

BlankClient ==
  [processedMessageIds |-> <<>>, issued |-> 0, evicted |-> 0,
   handled |-> 0, processed |-> FALSE] @@ BlankSocket

\* ------------------------------------------------------ the state as a record
Pack ==
  [connections |-> connections, wsConnection |-> wsConnection,
   wsPendingRequests |-> wsPendingRequests, sessions |-> sessions,
   sessionInfo |-> sessionInfo, pendingRequests |-> pendingRequests,
   notificationHandlers |-> notificationHandlers, processes |-> processes,
   processInfo |-> processInfo, handlers |-> handlers, call |-> call,
   killWaiters |-> killWaiters, killTimers |-> killTimers, agent |-> agent,
   closeAcked |-> closeAcked, made |-> made, client |-> client,
   out |-> <<>>, wrote |-> <<>>, micro |-> <<>>]

BlankCall == [pc |-> "idle", conn |-> "-", kind |-> "-", sessionId |-> <<"none", 0>>]
BlankSession ==
  [sessionId |-> <<"none", 0>>, connectionId |-> "-", status |-> "none",
   isInitialized |-> FALSE]
BlankProcess ==
  [sessionId |-> <<"none", 0>>, status |-> "none", os |-> "none", killed |-> FALSE,
   sigkill |-> FALSE]

Commit(st) ==
  /\ connections' = st.connections
  /\ wsConnection' = st.wsConnection
  /\ wsPendingRequests' = st.wsPendingRequests
  /\ sessions' = st.sessions
  /\ sessionInfo' = st.sessionInfo
  /\ pendingRequests' = st.pendingRequests
  /\ notificationHandlers' = st.notificationHandlers
  /\ processes' = st.processes
  /\ processInfo' = st.processInfo
  /\ handlers' = st.handlers
  /\ call' = st.call
  /\ killWaiters' = st.killWaiters
  /\ killTimers' = st.killTimers
  /\ agent' = st.agent
  /\ closeAcked' = st.closeAcked
  /\ made' = st.made
  /\ client' = st.client
  /\ out' = st.out
  /\ wrote' = st.wrote

\* ------------------------------------------------------------ Map helpers
\* an insertion-ordered Map is a sequence of entries with a key field
MapHas(m, key) == \E i \in 1..Len(m) : m[i].key = key
MapGet(m, key) == m[CHOOSE i \in 1..Len(m) : m[i].key = key]
MapDelete(m, key) == SelectSeq(m, LAMBDA e : e.key # key)
MapSet(m, e) ==
  IF MapHas(m, e.key)
  THEN [i \in 1..Len(m) |-> IF m[i].key = e.key THEN e ELSE m[i]]
  ELSE Append(m, e)

\* a Map whose order is never observed is a set of entries
SetHas(m, key) == \E e \in m : e.key = key
SetGet(m, key) == CHOOSE e \in m : e.key = key
SetDelete(m, key) == {e \in m : e.key # key}
SetSet(m, e) == SetDelete(m, e.key) \cup {e}

\* ------------------------------------------------------------- envelopes
NoType == <<>>
\* the update of a session/update line as the agent writes it (n numbers the
\* agent's output) and as the client receives it
\* ("-" stands for a field that is not there). isObject: the update is an
\* object; toolCall: the status and the result {content, error} of a tool call.
\* On the client's side sessionUpdate is the field of that name if the update
\* still has one, and toolCall.result tells whether a result field is there.
NoACPUpdate ==
  [sessionUpdate |-> "-", n |-> 0, isObject |-> TRUE,
   toolCall |-> [status |-> "-", result |-> FALSE, content |-> "-", error |-> "-"]]
NoUpdate ==
  [kind |-> "-", n |-> 0, sessionUpdate |-> "-",
   toolCall |-> [status |-> "-", output |-> "-", error |-> "-", result |-> FALSE]]
\* a payload argument: undefined, or an object, of which the names of its
\* fields are kept
Undefined == [given |-> FALSE, keys |-> {}]
Payload(keys) == [given |-> TRUE, keys |-> keys]
\* an envelope: root is the set of the keys the object has, payload the payload
\* object's field names; the values the model follows are kept beside them
BlankEnvelope ==
  [to |-> "-", type |-> NoType, sessionId |-> NoSid, requestId |-> NoRid,
   code |-> "-", message |-> "-", details |-> "-", stopReason |-> "-",
   update |-> NoUpdate, root |-> {}, payload |-> Undefined]

\* a variant that passes the agent's tool call on as it came, which C36's
\* property must reject
translateACPUpdatePassing(acpUpdate) ==
  [NoUpdate EXCEPT
     !.kind = acpUpdate.sessionUpdate, !.n = acpUpdate.n,
     !.toolCall = [status |-> acpUpdate.toolCall.status, output |-> "-",
                   error |-> "-", result |-> acpUpdate.toolCall.result]]

\* translateACPUpdate(acpUpdate): a value that is not an object, or an object
\* without sessionUpdate, is returned as it is; the eight known kinds are
\* rebuilt field by field (a tool_call_update gets output from result.content
\* and, for status error, error from result.error); any other sessionUpdate
\* becomes kind and the update's own fields are spread after it
translateACPUpdate(acpUpdate) ==
  LET sessionUpdate == acpUpdate.sessionUpdate
      toolCall == acpUpdate.toolCall
      asItIs == [NoUpdate EXCEPT
                   !.n = acpUpdate.n,
                   !.sessionUpdate = sessionUpdate,
                   !.toolCall = [status |-> toolCall.status, output |-> "-",
                                 error |-> "-", result |-> toolCall.result]]
  IN IF ~acpUpdate.isObject \/ sessionUpdate = "-"
     THEN asItIs
     ELSE CASE sessionUpdate \in {"agent_thought_chunk", "thought_chunk"} ->
                 [NoUpdate EXCEPT !.kind = "thought_chunk", !.n = acpUpdate.n]
            [] sessionUpdate = "tool_call" ->
                 [NoUpdate EXCEPT
                    !.kind = "tool_call", !.n = acpUpdate.n,
                    !.toolCall.status = IF toolCall.status = "-" THEN "pending"
                                        ELSE toolCall.status]
            [] sessionUpdate = "tool_call_update" ->
                 [NoUpdate EXCEPT
                    !.kind = "tool_call_update", !.n = acpUpdate.n,
                    !.toolCall.status = IF toolCall.status = "error" THEN "error"
                                        ELSE "completed",
                    !.toolCall.output = IF toolCall.result THEN toolCall.content
                                        ELSE "-",
                    !.toolCall.error = IF toolCall.status = "error" /\ toolCall.result
                                       THEN toolCall.error ELSE "-"]
            [] sessionUpdate \in {"agent_message_chunk", "plan", "available_commands",
                                  "current_mode_update", "config_options"} ->
                 [NoUpdate EXCEPT !.kind = sessionUpdate, !.n = acpUpdate.n]
            [] OTHER -> [asItIs EXCEPT !.kind = sessionUpdate]

\* createMessage(type, payload): id, type and timestamp always, payload when it
\* is not undefined; the values of id and timestamp are fresh and not modelled
createMessage(type, payload) ==
  [BlankEnvelope EXCEPT
     !.type = type,
     !.root = {"id", "type", "timestamp"}
                \cup (IF payload.given THEN {"payload"} ELSE {}),
     !.payload = payload]

\* createErrorMessage: ':request' at the end of the type becomes ':error'; a type
\* without ':' becomes system:error; any other type is kept as it is
createErrorMessage(requestType, code, message) ==
  LET n == Len(requestType)
      errorType ==
        IF n > 1
        THEN IF requestType[n] = "request"
             THEN [requestType EXCEPT ![n] = "error"]
             ELSE requestType
        ELSE <<"system", "error">>
  IN [BlankEnvelope EXCEPT !.type = errorType, !.code = code, !.message = message,
                           !.root = {"id", "type", "timestamp", "error"}]

\* ------------------------------------------------------ the type registry
\* the MessageType enum of the schemas
MessageType ==
  { <<"connection", "established", "success">>,
    <<"connection", "heartbeat", "request">>,
    <<"connection", "heartbeat", "success">>,
    <<"acp", "initialize", "request">>,
    <<"acp", "initialize", "success">>,
    <<"acp", "initialize", "error">>,
    <<"acp", "session", "create", "request">>,
    <<"acp", "session", "create", "success">>,
    <<"acp", "session", "create", "error">>,
    <<"acp", "session", "load", "request">>,
    <<"acp", "session", "load", "success">>,
    <<"acp", "session", "load", "error">>,
    <<"acp", "session", "close", "request">>,
    <<"acp", "session", "close", "success">>,
    <<"acp", "session", "close", "error">>,
    <<"acp", "session", "error">>,
    <<"acp", "prompt", "send", "request">>,
    <<"acp", "prompt", "send", "success">>,
    <<"acp", "prompt", "send", "error">>,
    <<"acp", "prompt", "update">>,
    <<"acp", "prompt", "complete">>,
    <<"acp", "prompt", "error">>,
    <<"acp", "prompt", "cancel", "request">>,
    <<"acp", "prompt", "cancel", "success">>,
    <<"acp", "prompt", "cancel", "error">>,
    <<"acp", "permission", "request">>,
    <<"acp", "permission", "response">>,
    <<"system", "error">> }

\* VALID_MESSAGE_TYPES, the list isValidMessageType looks a type up in
VALID_MESSAGE_TYPES ==
  { <<"connection", "established", "success">>,
    <<"connection", "heartbeat", "request">>,
    <<"connection", "heartbeat", "success">> }
  \cup { <<"acp", "initialize", s>> : s \in {"request", "success", "error"} }
  \cup { <<"acp", "session", a, s>> :
           a \in {"create", "load", "close"}, s \in {"request", "success", "error"} }
  \cup { <<"acp", "session", "error">> }
  \cup { <<"acp", "prompt", a, s>> :
           a \in {"send", "cancel"}, s \in {"request", "success", "error"} }
  \cup { <<"acp", "prompt", "update">>, <<"acp", "prompt", "complete">>,
         <<"acp", "prompt", "error">> }
  \cup { <<"acp", "permission", "request">>, <<"acp", "permission", "response">> }
  \cup { <<"system", "error">> }

isValidMessageType(type) == type \in VALID_MESSAGE_TYPES

\* the fields a type's payload object must have (z.object without .optional())
RequiredPayload(type) ==
  CASE type = <<"connection", "established", "success">> ->
         {"connectionId", "protocolVersion"}
    [] type = <<"connection", "heartbeat", "success">> -> {"latency"}
    [] type = <<"acp", "initialize", "request">> -> {"protocolVersion", "clientInfo"}
    [] type = <<"acp", "initialize", "success">> ->
         {"protocolVersion", "agentCapabilities", "availableModels"}
    [] type = <<"acp", "session", "create", "request">> -> {}
    [] type \in { <<"acp", "session", "create", "success">>,
                  <<"acp", "session", "load", "success">> } ->
         {"sessionId", "availableModels", "currentModel", "modes"}
    [] type \in { <<"acp", "session", "load", "request">>,
                  <<"acp", "session", "close", "request">>,
                  <<"acp", "session", "close", "success">>,
                  <<"acp", "session", "error">>,
                  <<"acp", "prompt", "cancel", "request">>,
                  <<"acp", "prompt", "cancel", "success">> } -> {"sessionId"}
    [] type = <<"acp", "prompt", "send", "request">> -> {"sessionId", "content"}
    [] type = <<"acp", "prompt", "send", "success">> -> {"requestId", "status"}
    [] type = <<"acp", "prompt", "update">> -> {"sessionId", "requestId", "update"}
    [] type = <<"acp", "prompt", "complete">> -> {"sessionId", "requestId", "result"}
    [] type = <<"acp", "permission", "request">> ->
         {"sessionId", "requestId", "toolCall", "options"}
    [] type = <<"acp", "permission", "response">> ->
         {"sessionId", "requestId", "outcome"}
    [] OTHER -> {}

\* the types whose schema extends the base message with `error: ErrorDetails`
ErrorSchemaTypes ==
  { t \in MessageType : t[Len(t)] = "error" }

\* the types whose schema gives payload no object: the heartbeat request omits
\* the field, the error schemas keep the base's optional unknown
PayloadFreeTypes ==
  (ErrorSchemaTypes \ { <<"acp", "session", "error">> })
    \cup { <<"connection", "heartbeat", "request">> }

\* Schemas: for each type of the enum, what its schema asks of payload and error
Schemas ==
  [ t \in MessageType |->
      [ payloadObject |-> t \notin PayloadFreeTypes,
        required |-> RequiredPayload(t),
        error |-> t \in ErrorSchemaTypes ] ]

\* validateMessage(type, data).success: no schema, no success; else the schema
\* parses data: id, type and timestamp present, the type literal, the payload
\* object with its required fields where the schema has one, the error object
\* where the schema requires it. The values of the fields are taken to be of
\* the right kind whenever the field is there.
validateMessage(type, data) ==
  IF type \notin DOMAIN Schemas
  THEN FALSE
  ELSE LET schema == Schemas[type]
       IN /\ {"id", "type", "timestamp"} \subseteq data.root
          /\ data.type = type
          /\ schema.payloadObject =>
                /\ "payload" \in data.root
                /\ data.payload.given
                /\ schema.required \subseteq data.payload.keys
          /\ schema.error => "error" \in data.root

\* connection.socket.send(...): nothing reaches the client once the socket is gone
Send(st, c, env) ==
  IF st.wsConnection[c].socket = "open"
  THEN [st EXCEPT !.out = Append(@, [env EXCEPT !.to = c])]
  ELSE st

\* ------------------------------------------------ stderr lines of the agent
\* a line is what it shows (text), the substrings String.includes finds in it
\* (has) and the error patterns that match it ignoring case (patterns)
RateLimitLine ==
  [text |-> "Rate limit exceeded at provider", has |-> {"Rate limit exceeded"},
   patterns |-> {"Rate limit exceeded"}]
LowerCaseLine ==
  [text |-> "error: unauthorized", has |-> {}, patterns |-> {"Unauthorized"}]
InfoLine ==
  [text |-> "INFO service=acp listening", has |-> {}, patterns |-> {}]
StderrLines == {RateLimitLine, LowerCaseLine, InfoLine}

ExitLine(code) ==
  [text |-> IF code = "null" THEN "Process terminated unexpectedly"
            ELSE "Process exited with code 1",
   has |-> {}, patterns |-> {}]

errorPatterns ==
  {"Rate limit exceeded", "AI_APICallError", "Unauthorized", "401", "403",
   "Authentication failed", "Invalid API key", "quota exceeded"}

\* the message handleProcessStderr derives from the line
errorMessage(data) ==
  IF "Rate limit exceeded" \in data.has
    THEN "Rate limit exceeded. Please try again later."
  ELSE IF "Unauthorized" \in data.has \/ "401" \in data.has
    THEN "Authentication failed. Please check your API key."
  ELSE IF "403" \in data.has
    THEN "Access denied. Please check your permissions."
  ELSE IF "Invalid API key" \in data.has
    THEN "Invalid API key. Please check your configuration."
  ELSE IF "quota exceeded" \in data.has
    THEN "API quota exceeded. Please check your usage limits."
  ELSE "An error occurred while processing your request"

\* --------------------------------------------------------- notifications
BlankNotification ==
  [method |-> "-", stopReason |-> "-", code |-> "-", message |-> "-", details |-> "-",
   update |-> NoACPUpdate]

StopReasons == {"end_turn", "tool_use", "cancelled", "error"}

\* routes/websocket handleSessionNotification(connectionId, sessionId, notification)
handleSessionNotification(st, connectionId, sessionId, n) ==
  IF connectionId \notin st.connections THEN st
  ELSE
    LET mine == SelectSeq(st.wsPendingRequests, LAMBDA e : e.connectionId = connectionId)
        found == Len(mine) > 0
        correlatedRequestId == IF found THEN mine[1].key ELSE NoRid
    IN CASE n.method = "session/update" ->
              Send(st, connectionId,
                   [createMessage(<<"acp", "prompt", "update">>,
                                 Payload({"sessionId", "requestId", "update"})) EXCEPT
                      !.sessionId = sessionId,
                      !.requestId = IF found THEN correlatedRequestId ELSE Unknown,
                      !.update = translateACPUpdate(n.update)])
         [] n.method = "session/error" ->
              Send(st, connectionId,
                   [createMessage(<<"acp", "session", "error">>,
                                  Payload({"sessionId"})) EXCEPT
                      !.root = @ \cup {"error"},
                      !.sessionId = sessionId, !.code = n.code,
                      !.message = n.message, !.details = n.details])
         [] n.method = "session/prompt" ->
              Send([st EXCEPT !.wsPendingRequests =
                      IF found THEN MapDelete(@, correlatedRequestId) ELSE @],
                   connectionId,
                   [createMessage(<<"acp", "prompt", "complete">>,
                                 Payload({"sessionId", "requestId", "result"})) EXCEPT
                      !.sessionId = sessionId,
                      !.requestId = IF found THEN correlatedRequestId ELSE Unknown,
                      !.stopReason = IF n.stopReason \in StopReasons
                                     THEN n.stopReason ELSE "end_turn"])
         [] n.method = "session/request_permission" ->
              Send(st, connectionId,
                   [createMessage(<<"acp", "permission", "request">>,
                                 Payload({"sessionId", "requestId", "toolCall",
                                          "options"})) EXCEPT
                      !.sessionId = sessionId,
                      !.requestId = IF found THEN correlatedRequestId ELSE FreshUuid])
         [] OTHER -> st

\* a variant that hands every notification to the handler twice, which C19's
\* property must reject
NotifyTwice(st, sessionId, n) ==
  IF SetHas(st.notificationHandlers, sessionId)
  THEN LET h == SetGet(st.notificationHandlers, sessionId)
       IN handleSessionNotification(
            handleSessionNotification(st, h.connectionId, h.sessionId, n),
            h.connectionId, h.sessionId, n)
  ELSE st

\* the closure registered by acpHandler.onNotification, called with a notification
Notify(st, sessionId, n) ==
  IF SetHas(st.notificationHandlers, sessionId)
  THEN LET h == SetGet(st.notificationHandlers, sessionId)
       IN handleSessionNotification(st, h.connectionId, h.sessionId, n)
  ELSE st

\* ACPProtocolHandler.handleProcessStderr(sessionId, data)
handleProcessStderr(st, sessionId, data) ==
  Notify(st, sessionId,
         [BlankNotification EXCEPT !.method = "session/error", !.code = "API_ERROR",
            !.message = errorMessage(data), !.details = data.text])

\* ------------------------------------------------- continuations (microtasks)
NoAfter == [c |-> "none", k |-> 0, conn |-> "-", sid |-> NoSid]
BlankMicro ==
  [t |-> "-", sid |-> NoSid, k |-> 0, m |-> "-", outcome |-> "-",
   newSid |-> NoSid, after |-> NoAfter]
Queue(st, item) == [st EXCEPT !.micro = Append(@, item)]

\* a variant that resumes the awaiting call and leaves the entry in the table,
\* which C11's property must reject
SettleKeepingEntry(st, id, outcome, newSid) ==
  Queue(st, [BlankMicro EXCEPT !.t = "rpc", !.k = id[1], !.m = id[2],
               !.outcome = outcome, !.newSid = newSid])

\* the awaiting call of a pending request is resumed with an outcome
Settle(st, id, outcome, newSid) ==
  Queue([st EXCEPT !.pendingRequests = MapDelete(@, id)],
        [BlankMicro EXCEPT !.t = "rpc", !.k = id[1], !.m = id[2],
           !.outcome = outcome, !.newSid = newSid])

RECURSIVE SettleAll(_, _, _)
SettleAll(st, ids, outcome) ==
  IF ids = <<>> THEN st
  ELSE SettleAll(Settle(st, Head(ids).key, outcome, NoSid), Tail(ids), outcome)

\* ACPProtocolHandler.getSessionIdFromRequestId: the first session of the table
\* whose status is active, when any request is pending at all
getSessionIdFromRequestId(st) ==
  LET active == SelectSeq(st.sessions,
                          LAMBDA e : st.sessionInfo[e.obj].status = "active")
  IN IF st.pendingRequests # <<>> /\ active # <<>> THEN active[1].key ELSE NoSid

\* a variant that signals the subprocess and resolves without waiting for its
\* 'close' event, which C16's property must reject
killProcessUnawaited(st, sessionId, then) ==
  IF ~SetHas(st.processes, sessionId)
       \/ st.processInfo[SetGet(st.processes, sessionId).proc].status = "closed"
  THEN Queue(st, then)
  ELSE Queue([st EXCEPT !.processInfo[SetGet(st.processes, sessionId).proc].killed = TRUE],
             then)

\* OpenCodeProcessManager.killProcess(sessionId); `then` runs when it resolves
killProcess(st, sessionId, then) ==
  IF ~SetHas(st.processes, sessionId)
       \/ st.processInfo[SetGet(st.processes, sessionId).proc].status = "closed"
  THEN Queue(st, then)
  ELSE LET p == SetGet(st.processes, sessionId).proc
       IN [st EXCEPT !.processInfo[p].killed = TRUE,
                     !.killTimers[p] = @ + 1,
                     !.killWaiters[p] = Append(@, then)]

\* a variant that deletes the session and leaves the subprocess alone, which
\* C14's property must reject
closeSessionWithoutKill(st, sessionId, after) ==
  IF ~MapHas(st.sessions, sessionId)
  THEN Queue(st, [BlankMicro EXCEPT !.t = "after", !.after = after])
  ELSE Queue([st EXCEPT !.sessionInfo[MapGet(st.sessions, sessionId).obj].status = "closed"],
             [BlankMicro EXCEPT !.t = "closed", !.sid = sessionId, !.after = after])

\* a variant that deletes the session before it awaits the subprocess's exit,
\* which C20's property must reject
closeSessionDeletingFirst(st, sessionId, after) ==
  IF ~MapHas(st.sessions, sessionId)
  THEN Queue(st, [BlankMicro EXCEPT !.t = "after", !.after = after])
  ELSE killProcess([st EXCEPT
                      !.sessionInfo[MapGet(st.sessions, sessionId).obj].status = "closed",
                      !.sessions = MapDelete(@, sessionId)],
                   sessionId,
                   [BlankMicro EXCEPT !.t = "closed", !.sid = sessionId, !.after = after])

\* a variant whose repeated close also drops the notification handler kept
\* for the id, which C27's property must reject
closeSessionClearingHandlers(st, sessionId, after) ==
  IF ~MapHas(st.sessions, sessionId)
  THEN Queue([st EXCEPT !.notificationHandlers = SetDelete(@, sessionId)],
             [BlankMicro EXCEPT !.t = "after", !.after = after])
  ELSE killProcess([st EXCEPT
                      !.sessionInfo[MapGet(st.sessions, sessionId).obj].status = "closed"],
                   sessionId,
                   [BlankMicro EXCEPT !.t = "closed", !.sid = sessionId, !.after = after])

\* ACPProtocolHandler.closeSession(sessionId); `after` is the caller's continuation
closeSession(st, sessionId, after) ==
  IF ~MapHas(st.sessions, sessionId)
  THEN Queue(st, [BlankMicro EXCEPT !.t = "after", !.after = after])
  ELSE
    LET obj == MapGet(st.sessions, sessionId).obj
        st1 == [st EXCEPT !.sessionInfo[obj].status = "closed"]
        st2 == IF getSessionIdFromRequestId(st1) = sessionId
               THEN SettleAll(st1, st1.pendingRequests, "closed")
               ELSE st1
    IN killProcess(st2, sessionId,
                   [BlankMicro EXCEPT !.t = "closed", !.sid = sessionId,
                      !.after = after])

\* ------------------------------------------------------ process manager
BlankLine == [proc |-> 0, method |-> "-", sessionId |-> NoSid, id |-> <<0, "-">>]

\* sendMessage throws when the process is absent or closed
canSend(st, sessionId) ==
  /\ SetHas(st.processes, sessionId)
  /\ st.processInfo[SetGet(st.processes, sessionId).proc].status # "closed"

\* OpenCodeProcessManager.sendMessage(sessionId, message) when it does not throw:
\* the line reaches the agent's stdin; rid is the client envelope that caused it
sendMessage(st, sessionId, line, rid) ==
  LET p == SetGet(st.processes, sessionId).proc
      st1 == [st EXCEPT !.wrote = Append(@, [line EXCEPT !.proc = p])]
  IN CASE line.method = "initialize" -> [st1 EXCEPT !.agent[p].init = "sent"]
       [] line.method = "session/new" -> [st1 EXCEPT !.agent[p].new = "sent"]
       [] line.method = "session/prompt" ->
            [st1 EXCEPT !.agent[p].turns = Append(@, rid)]
       [] OTHER -> st1

\* OpenCodeProcessManager.registerHandler(sessionId, handler): the handler's
\* closures call the protocol handler with `sid`; onStderr may be missing
registerHandler(st, sessionId, sid, withStderr) ==
  [st EXCEPT !.handlers =
     SetSet(@, [key |-> sessionId, sid |-> sid, onStderr |-> withStderr])]

\* OpenCodeProcessManager.updateStatus(sessionId, status)
updateStatus(st, sessionId, status) ==
  IF SetHas(st.processes, sessionId)
  THEN [st EXCEPT !.processInfo[SetGet(st.processes, sessionId).proc].status = status]
  ELSE st

\* a variant that moves the table entries and leaves processInfo.sessionId as
\* it was, which C8's property must reject
migrateProcessKeepingId(st, oldSessionId, newSessionId) ==
  IF ~SetHas(st.processes, oldSessionId) THEN st
  ELSE
    LET p == SetGet(st.processes, oldSessionId).proc
        st1 == [st EXCEPT
                  !.processes = SetDelete(SetSet(@, [key |-> newSessionId, proc |-> p]),
                                          oldSessionId)]
    IN IF SetHas(st1.handlers, oldSessionId)
       THEN LET h == SetGet(st1.handlers, oldSessionId)
            IN [st1 EXCEPT !.handlers =
                  SetDelete(SetSet(@, [h EXCEPT !.key = newSessionId]), oldSessionId)]
       ELSE st1

\* OpenCodeProcessManager.migrateProcess(oldSessionId, newSessionId)
migrateProcess(st, oldSessionId, newSessionId) ==
  IF ~SetHas(st.processes, oldSessionId) THEN st
  ELSE
    LET p == SetGet(st.processes, oldSessionId).proc
        st1 == [st EXCEPT
                  !.processInfo[p].sessionId = newSessionId,
                  !.processes = SetDelete(SetSet(@, [key |-> newSessionId, proc |-> p]),
                                          oldSessionId)]
    IN IF SetHas(st1.handlers, oldSessionId)
       THEN LET h == SetGet(st1.handlers, oldSessionId)
            IN [st1 EXCEPT !.handlers =
                  SetDelete(SetSet(@, [h EXCEPT !.key = newSessionId]), oldSessionId)]
       ELSE st1

\* OpenCodeProcessManager.cleanup(sessionId)
cleanup(st, sessionId) ==
  [st EXCEPT !.processes = SetDelete(@, sessionId),
             !.handlers = SetDelete(@, sessionId)]

\* ------------------------------------------------------- JSON-RPC correlator
\* ACPProtocolHandler.sendRequestAndWait(sessionId, request) in call k
sendRequestAndWait(st, k, m) ==
  LET id == <<k, m>>
      sid == st.call[k].sessionId
      st1 == [st EXCEPT !.pendingRequests = Append(@, [key |-> id]),
                        !.call[k].pc = IF m = "initialize" THEN "awaitInit" ELSE "awaitNew"]
  IN IF canSend(st1, sid)
     THEN sendMessage(st1, sid, [BlankLine EXCEPT !.method = m, !.id = id], NoRid)
     ELSE Settle(st1, id, "sendfail", NoSid)

\* the rest of createSession / initialize (and of the handleMessage case that
\* awaits it) once the awaited request of call k is settled
ResumeCall(st, k, m, outcome, newSid) ==
  LET c == st.call[k]
      sid == c.sessionId
      prefix == IF c.kind = "create" THEN <<"acp", "session", "create">>
                ELSE <<"acp", "initialize">>
  IN IF outcome # "ok"
     THEN closeSession([st EXCEPT !.call[k].pc = "awaitKill"], sid,
                       [NoAfter EXCEPT !.c = "createFail", !.k = k])
     ELSE IF c.kind = "initialize"
     THEN Send(updateStatus([st EXCEPT !.sessionInfo[k].isInitialized = TRUE,
                                       !.call[k].pc = "done"], sid, "ready"),
               c.conn,
               createMessage(prefix \o <<"success">>,
                             Payload({"protocolVersion", "agentCapabilities",
                                      "availableModels"})))
     ELSE IF m = "initialize"
     THEN sendRequestAndWait(st, k, "session/new")
     ELSE
       LET migrate == newSid # NoSid /\ newSid # sid
           st1 == IF migrate
                  THEN registerHandler(
                         migrateProcess(
                           [st EXCEPT !.sessionInfo[k].sessionId = newSid,
                                      !.sessions = MapSet(MapDelete(@, sid),
                                                          [key |-> newSid, obj |-> k]),
                                      !.call[k].sessionId = newSid],
                           sid, newSid),
                         newSid, newSid, FALSE)
                  ELSE st
           sessionId == st1.call[k].sessionId
           st2 == updateStatus([st1 EXCEPT !.sessionInfo[k].isInitialized = TRUE,
                                           !.call[k].pc = "done"],
                               sessionId, "ready")
           resultSid == IF newSid # NoSid THEN newSid ELSE sessionId
           st3 == [st2 EXCEPT
                     !.wsConnection[c.conn].sessionIds = @ \cup {resultSid},
                     !.notificationHandlers =
                        SetSet(@, [key |-> resultSid, connectionId |-> c.conn,
                                   sessionId |-> resultSid])]
       IN Send(st3, c.conn,
               [createMessage(prefix \o <<"success">>,
                              Payload({"sessionId", "availableModels",
                                       "currentModel", "modes"}))
                  EXCEPT !.sessionId = resultSid])

\* what the caller of closeSession does when the promise resolves
ResumeAfter(st, after) ==
  CASE after.c = "createFail" ->
         LET c == st.call[after.k]
         IN Send([st EXCEPT !.call[after.k].pc = "done"], c.conn,
                 IF c.kind = "create"
                 THEN createErrorMessage(<<"acp", "session", "create", "request">>,
                                         "SESSION_CREATE_FAILED", "-")
                 ELSE createErrorMessage(<<"acp", "initialize", "request">>,
                                         "ACP_INIT_FAILED", "-"))
    [] after.c = "closeReq" ->
         Send([st EXCEPT !.wsConnection[after.conn].sessionIds = @ \ {after.sid}],
              after.conn,
              [createMessage(<<"acp", "session", "close", "success">>,
                             Payload({"sessionId"})) EXCEPT
                 !.sessionId = after.sid])
    [] OTHER -> st

RunOne(st, item) ==
  CASE item.t = "rpc" -> ResumeCall(st, item.k, item.m, item.outcome, item.newSid)
    [] item.t = "closed" ->
         ResumeAfter([st EXCEPT
                        !.sessions = MapDelete(@, item.sid),
                        !.closeAcked =
                           IF item.after.c = "closeReq"
                                /\ st.wsConnection[item.after.conn].socket = "open"
                           THEN @ \cup {item.sid} ELSE @],
                     item.after)
    [] OTHER -> ResumeAfter(st, item.after)

\* the microtask queue is drained before the next event is taken
RECURSIVE Drain(_)
Drain(st) ==
  IF st.micro = <<>> THEN st
  ELSE Drain(RunOne([st EXCEPT !.micro = Tail(@)], Head(st.micro)))

\* ---------------------------------------------------- subprocess callbacks
BlankMessage ==
  [hasId |-> FALSE, id |-> <<0, "-">>, method |-> "-", hasError |-> FALSE,
   hasResult |-> FALSE, stopReason |-> "-", newSid |-> NoSid, update |-> NoACPUpdate]

\* a variant that forwards notifications only and drops a message whose id is
\* not pending, which C34's property must reject
handleProcessMessageDropping(st, sessionId, message) ==
  IF message.hasId
  THEN IF MapHas(st.pendingRequests, message.id)
       THEN Settle(st, message.id, IF message.hasError THEN "error" ELSE "ok",
                   message.newSid)
       ELSE st
  ELSE IF message.method # "-"
  THEN Notify(st, sessionId, [BlankNotification EXCEPT !.method = message.method,
                                                       !.update = message.update])
  ELSE st

\* ACPProtocolHandler.handleProcessMessage(sessionId, message)
handleProcessMessage(st, sessionId, message) ==
  IF message.hasId
  THEN IF MapHas(st.pendingRequests, message.id)
       THEN Settle(st, message.id, IF message.hasError THEN "error" ELSE "ok",
                   message.newSid)
       ELSE Notify(st, sessionId,
                   [BlankNotification EXCEPT
                      !.method = "session/prompt",
                      !.stopReason = IF message.hasResult THEN message.stopReason
                                     ELSE "unknown"])
  ELSE IF message.method # "-"
  THEN Notify(st, sessionId, [BlankNotification EXCEPT !.method = message.method,
                                                       !.update = message.update])
  ELSE st

\* OpenCodeProcessManager.handleProcessOutput(sessionId, line) for a JSON line
handleProcessOutput(st, sessionId, message) ==
  IF SetHas(st.handlers, sessionId)
  THEN handleProcessMessage(st, SetGet(st.handlers, sessionId).sid, message)
  ELSE st

\* the text handleProcessError hands to handleProcessStderr
ErrorLine ==
  [text |-> "Process error: spawn opencode ENOENT", has |-> {}, patterns |-> {}]

\* ACPProtocolHandler.handleProcessError(sessionId, error)
handleProcessError(st, sessionId) ==
  LET st1 == handleProcessStderr(st, sessionId, ErrorLine)
  IN IF getSessionIdFromRequestId(st1) = sessionId
     THEN SettleAll(st1, st1.pendingRequests, "error")
     ELSE st1

\* ACPProtocolHandler.handleProcessClose(sessionId, code)
handleProcessClose(st, sessionId, code) ==
  LET st1 == IF MapHas(st.sessions, sessionId)
             THEN [st EXCEPT !.sessionInfo[MapGet(st.sessions, sessionId).obj].status
                               = "closed"]
             ELSE st
      st2 == IF code # "0" THEN handleProcessStderr(st1, sessionId, ExitLine(code))
             ELSE st1
  IN closeSession(st2, sessionId, NoAfter)

\* ------------------------------------------------------------ initial state
BlankLast ==
  [ev |-> "-", conn |-> "-", type |-> NoType, sid |-> NoSid, proc |-> 0,
   key |-> NoSid, hsid |-> NoSid, trig |-> NoRid, code |-> "-", text |-> "-",
   token |-> "-"]

Init ==
  /\ connections = {}
  /\ wsConnection = [c \in ConnIds |->
       [socket |-> "none", sessionIds |-> {}, isAlive |-> FALSE,
        heartbeatInterval |-> FALSE]]
  /\ wsPendingRequests = <<>>
  /\ sessions = <<>>
  /\ sessionInfo = [k \in K |-> BlankSession]
  /\ pendingRequests = <<>>
  /\ notificationHandlers = {}
  /\ processes = {}
  /\ processInfo = [k \in K |-> BlankProcess]
  /\ handlers = {}
  /\ call = [k \in K |-> BlankCall]
  /\ killWaiters = [k \in K |-> <<>>]
  /\ killTimers = [k \in K |-> 0]
  /\ agent = [k \in K |-> [init |-> "none", new |-> "none", turns |-> <<>>]]
  /\ nCreates = 0 /\ nEvents = 0
  /\ closeAcked = {}
  /\ made = BlankEnvelope
  /\ client = BlankClient
  /\ out = <<>> /\ wrote = <<>>
  /\ last = BlankLast

\* ------------------------------------------------------------- connections
\* GET /ws with a token that verifies: the connection is registered and greeted
Connect(c) ==
  /\ wsConnection[c].socket = "none"
  /\ LET st == [Pack EXCEPT
                  !.connections = @ \cup {c},
                  !.wsConnection[c] = [socket |-> "open", sessionIds |-> {},
                                       isAlive |-> TRUE, heartbeatInterval |-> TRUE]]
     IN Commit(Send(st, c, createMessage(<<"connection", "established", "success">>,
                                        Payload({"connectionId", "protocolVersion"}))))
  /\ last' = [BlankLast EXCEPT !.ev = "connect", !.conn = c]
  /\ UNCHANGED <<nCreates, nEvents>>

\* the setInterval callback of a connection (every 25 seconds). Next leaves the
\* timer out: SocketClose may close an open socket at any time, which covers
\* every close the timer can cause, and nothing else reads isAlive.
HeartbeatTick(c) ==
  /\ wsConnection[c].heartbeatInterval
  /\ wsConnection[c].socket = "open"
  /\ IF ~wsConnection[c].isAlive
     THEN Commit([Pack EXCEPT !.wsConnection[c].socket = "terminated",
                              !.wsConnection[c].heartbeatInterval = FALSE])
     ELSE Commit([Pack EXCEPT !.wsConnection[c].isAlive = FALSE])
  /\ last' = [BlankLast EXCEPT !.ev = "tick", !.conn = c]
  /\ UNCHANGED <<nCreates, nEvents>>

\* a variant of the pong listener that leaves the liveness flag alone, which
\* C24's property must reject
PongIgnored(c) ==
  /\ wsConnection[c].socket = "open"
  /\ ~wsConnection[c].isAlive
  /\ Commit(Pack)
  /\ last' = [BlankLast EXCEPT !.ev = "pong", !.conn = c]
  /\ UNCHANGED <<nCreates, nEvents>>

\* socket.on('pong')
Pong(c) ==
  /\ wsConnection[c].socket = "open"
  /\ ~wsConnection[c].isAlive
  /\ Commit([Pack EXCEPT !.wsConnection[c].isAlive = TRUE])
  /\ last' = [BlankLast EXCEPT !.ev = "pong", !.conn = c]
  /\ UNCHANGED <<nCreates, nEvents>>

RECURSIVE closeEach(_, _)
closeEach(st, sids) ==
  IF sids = {} THEN st
  ELSE LET sid == CHOOSE x \in sids : TRUE
       IN closeEach(closeSession(st, sid, NoAfter), sids \ {sid})

\* socket.on('close'): the client went away or the server terminated the socket
SocketClose(c) ==
  /\ wsConnection[c].socket \in {"open", "terminated"}
  /\ LET st1 == [Pack EXCEPT !.wsConnection[c].socket = "closed",
                             !.wsConnection[c].heartbeatInterval = FALSE,
                             !.connections = @ \ {c}]
         st2 == closeEach(st1, st1.wsConnection[c].sessionIds)
         st3 == [st2 EXCEPT !.wsPendingRequests =
                   SelectSeq(@, LAMBDA e : e.connectionId # c)]
     IN Commit(Drain(st3))
  /\ last' = [BlankLast EXCEPT !.ev = "socketClose", !.conn = c]
  /\ UNCHANGED <<nCreates, nEvents>>

\* the token query parameter of an upgrade: absent (or empty), expired, not
\* signed with the secret, or good
Tokens == {"absent", "expired", "forged", "good"}

\* verifyToken(token): the decoded user, or null when jwt.verify throws
verifyToken(token) == token = "good"

\* a variant that gives every refused upgrade the same reason, which C23's
\* property must reject
RejectReasonSame(token) == "Invalid token"

\* the reason the /ws handler closes a refused upgrade with
RejectReason(token) ==
  IF token = "absent" THEN "Authentication required" ELSE "Invalid token"

\* GET /ws with no token or a token that does not verify: socket.close(1008,
\* reason) and return, before anything is registered
UpgradeRejected(c, token) ==
  /\ wsConnection[c].socket = "none"
  /\ token = "absent" \/ ~verifyToken(token)
  /\ Commit([Pack EXCEPT !.wsConnection[c].socket = "rejected"])
  /\ last' = [BlankLast EXCEPT !.ev = "upgradeRejected", !.conn = c, !.token = token,
                !.code = "1008", !.text = RejectReason(token)]
  /\ UNCHANGED <<nCreates, nEvents>>

\* ------------------------------------------------------------ client frames
\* every frame received marks the connection alive (second 'message' listener)
Received(c) == [Pack EXCEPT !.wsConnection[c].isAlive = TRUE]

\* acp:session:create:request (kind "create") or acp:initialize:request
\* (kind "initialize"): spawnProcess, registerHandler, sessions.set and the
\* initialize request, up to the first await of a reply
FrameCreateUpTo(c, kind, limit) ==
  /\ wsConnection[c].socket = "open"
  /\ nCreates < limit
  /\ LET k == nCreates + 1
         sessionId == T(k)
         st1 == [Received(c) EXCEPT
                   !.processes = SetSet(@, [key |-> sessionId, proc |-> k]),
                   !.processInfo[k] = [sessionId |-> sessionId, status |-> "initializing",
                                       os |-> "running", killed |-> FALSE,
                                       sigkill |-> FALSE],
                   !.call[k] = [pc |-> "awaitInit", conn |-> c, kind |-> kind,
                                sessionId |-> sessionId]]
         st2 == registerHandler(st1, sessionId, sessionId, kind = "create")
         st3 == [st2 EXCEPT
                   !.sessionInfo[k] = [sessionId |-> sessionId, connectionId |-> c,
                                       status |-> "active", isInitialized |-> FALSE],
                   !.sessions = MapSet(@, [key |-> sessionId, obj |-> k])]
     IN /\ Commit(Drain(sendRequestAndWait(st3, k, "initialize")))
        /\ last' = [BlankLast EXCEPT !.ev = "frame", !.conn = c, !.proc = k,
                      !.type = IF kind = "create"
                               THEN <<"acp", "session", "create", "request">>
                               ELSE <<"acp", "initialize", "request">>]
  /\ nCreates' = nCreates + 1
  /\ UNCHANGED nEvents

\* a create or initialize frame of the single-session specification
FrameCreate(c, kind) == FrameCreateUpTo(c, kind, MaxCreates)

\* a variant without the ownership test, which C3's property must reject
ownsSessionOmitted(session, connectionId) == TRUE

\* the ownership test of the acp:prompt:send:request case
ownsSession(session, connectionId) == session.connectionId = connectionId

\* a variant that writes the prompt to the agent and reports a failure, so that
\* no acceptance is sent, which C17's property must reject
sendPromptUnconfirmed(st, sessionId, rid) ==
  IF ~MapHas(st.sessions, sessionId) \/ ~canSend(st, sessionId)
  THEN [ok |-> FALSE, st |-> st]
  ELSE [ok |-> FALSE,
        st |-> sendMessage(st, sessionId,
                           [BlankLine EXCEPT !.method = "session/prompt",
                              !.sessionId = sessionId, !.id = <<0, "prompt">>], rid)]

\* ACPProtocolHandler.sendPrompt(sessionId, content, agentMode); rid is the
\* envelope id the route recorded for it
sendPrompt(st, sessionId, rid) ==
  IF ~MapHas(st.sessions, sessionId) THEN [ok |-> FALSE, st |-> st]
  ELSE IF st.sessionInfo[MapGet(st.sessions, sessionId).obj].status = "closed"
  THEN [ok |-> FALSE, st |-> st]
  ELSE IF ~canSend(st, sessionId) THEN [ok |-> FALSE, st |-> st]
  ELSE [ok |-> TRUE,
        st |-> sendMessage(st, sessionId,
                           [BlankLine EXCEPT !.method = "session/prompt",
                              !.sessionId = sessionId, !.id = <<0, "prompt">>], rid)]

\* acp:prompt:send:request {sessionId, content}; its envelope id is R(nEvents + 1)
FramePrompt(c, sessionId) ==
  /\ wsConnection[c].socket = "open"
  /\ nEvents < MaxEvents
  /\ LET type == <<"acp", "prompt", "send", "request">>
         requestId == R(nEvents + 1)
         st0 == Received(c)
     IN IF ~MapHas(st0.sessions, sessionId)
        THEN Commit(Send(st0, c, createErrorMessage(type, "SESSION_NOT_FOUND", "-")))
        ELSE IF ~ownsSession(st0.sessionInfo[MapGet(st0.sessions, sessionId).obj], c)
        THEN Commit(Send(st0, c, createErrorMessage(type, "UNAUTHORIZED", "-")))
        ELSE
          LET st1 == [st0 EXCEPT !.wsPendingRequests =
                        MapSet(@, [key |-> requestId, connectionId |-> c])]
              r == sendPrompt(st1, sessionId, requestId)
              st2 == [r.st EXCEPT !.wsPendingRequests = MapDelete(@, requestId)]
          IN IF ~r.ok
             THEN Commit(Send(st2, c, createErrorMessage(type, "PROMPT_FAILED", "-")))
             ELSE Commit(Send(st2, c,
                    [createMessage(<<"acp", "prompt", "send", "success">>,
                                  Payload({"requestId", "status"})) EXCEPT
                       !.requestId = requestId]))
  /\ last' = [BlankLast EXCEPT !.ev = "frame", !.conn = c, !.sid = sessionId,
                !.type = <<"acp", "prompt", "send", "request">>,
                !.trig = R(nEvents + 1)]
  /\ nEvents' = nEvents + 1
  /\ UNCHANGED nCreates

\* ACPProtocolHandler.cancelSession(sessionId)
cancelSession(st, sessionId) ==
  IF ~MapHas(st.sessions, sessionId) THEN st
  ELSE IF st.sessionInfo[MapGet(st.sessions, sessionId).obj].status = "closed" THEN st
  ELSE IF ~canSend(st, sessionId) THEN st
  ELSE sendMessage(st, sessionId,
                   [BlankLine EXCEPT !.method = "session/cancel",
                      !.sessionId = sessionId], NoRid)

\* acp:prompt:cancel:request {sessionId}
FrameCancel(c, sessionId) ==
  /\ wsConnection[c].socket = "open"
  /\ nEvents < MaxEvents
  /\ Commit(Send(cancelSession(Received(c), sessionId), c,
                 [createMessage(<<"acp", "prompt", "cancel", "success">>,
                               Payload({"sessionId"})) EXCEPT
                    !.sessionId = sessionId]))
  /\ last' = [BlankLast EXCEPT !.ev = "frame", !.conn = c, !.sid = sessionId,
                !.type = <<"acp", "prompt", "cancel", "request">>]
  /\ nEvents' = nEvents + 1
  /\ UNCHANGED nCreates

\* acp:session:close:request {sessionId}
FrameClose(c, sessionId) ==
  /\ wsConnection[c].socket = "open"
  /\ nEvents < MaxEvents
  /\ Commit(Drain(closeSession(Received(c), sessionId,
                               [NoAfter EXCEPT !.c = "closeReq", !.conn = c,
                                  !.sid = sessionId])))
  /\ last' = [BlankLast EXCEPT !.ev = "frame", !.conn = c, !.sid = sessionId,
                !.type = <<"acp", "session", "close", "request">>]
  /\ nEvents' = nEvents + 1
  /\ UNCHANGED nCreates

\* handleMessage for acp:session:load:request: the type is among the valid
\* message types and the switch has no case for it, so the default case answers
SessionLoadRequest == <<"acp", "session", "load", "request">>
FrameLoad(c) ==
  /\ wsConnection[c].socket = "open"
  /\ nEvents < MaxEvents
  /\ Commit(Drain(Send(Received(c), c,
                        createErrorMessage(<<"system", "error">>, "UNKNOWN_TYPE", "-"))))
  /\ last' = [BlankLast EXCEPT !.ev = "frame", !.conn = c, !.type = SessionLoadRequest]
  /\ nEvents' = nEvents + 1
  /\ UNCHANGED nCreates

\* ------------------------------------------- frames that are not requests
\* what a frame that fails the checks before the switch may be: text that is
\* not JSON, the JSON value null, a JSON value without a type field, and a
\* message whose type is not among the valid message types
InvalidFrames == {"badjson", "null", "notype", "unknowntype"}

\* the gateway process ends on an unhandled promise rejection: every socket
\* is closed with it and its tables are gone
GatewayExit(st) ==
  [st EXCEPT
     !.connections = {},
     !.wsConnection = [c \in ConnIds |->
        IF st.wsConnection[c].socket \in {"open", "terminated"}
        THEN [st.wsConnection[c] EXCEPT !.socket = "closed", !.heartbeatInterval = FALSE]
        ELSE st.wsConnection[c]],
     !.wsPendingRequests = <<>>]

\* the 'message' listeners for a frame that never reaches the switch of
\* handleMessage. JSON.parse throws on text that is not JSON and the listener's
\* catch answers; handleMessage answers a value without type and an unknown
\* type; for null, `message.type` throws inside the async handleMessage, whose
\* promise nobody awaits: the rejection is unhandled, and Node either reports
\* it or ends the process (exits)
FrameInvalid(c, frame, exits) ==
  /\ wsConnection[c].socket = "open"
  /\ nEvents < MaxEvents
  /\ frame = "null" \/ ~exits
  /\ LET SystemError == <<"system", "error">>
         st0 == Received(c)
     IN CASE frame \in {"badjson", "notype"} ->
               Commit(Send(st0, c, createErrorMessage(SystemError, "INVALID_MESSAGE", "-")))
          [] frame = "unknowntype" ->
               Commit(Send(st0, c, createErrorMessage(SystemError, "UNKNOWN_TYPE", "-")))
          [] OTHER -> Commit(IF exits THEN GatewayExit(st0) ELSE st0)
  /\ last' = [BlankLast EXCEPT !.ev = "invalidFrame", !.conn = c, !.text = frame]
  /\ nEvents' = nEvents + 1
  /\ UNCHANGED nCreates

\* the root keys a client's frame may lack, and a message without them
MissingKeys == {{}, {"id"}, {"timestamp"}}
Without(data, missing) == [data EXCEPT !.root = @ \ missing]

\* connection:heartbeat:request: a frame that fails validation is answered with
\* createErrorMessage(type, 'INVALID_PARAMS', ...), any other with
\* connection:heartbeat:success {latency}
HeartbeatRequest == <<"connection", "heartbeat", "request">>
FrameHeartbeat(c, missing) ==
  /\ wsConnection[c].socket = "open"
  /\ nEvents < MaxEvents
  /\ LET message == Without(createMessage(HeartbeatRequest, Undefined), missing)
         validation == validateMessage(HeartbeatRequest, message)
     IN /\ Commit(Drain(Send(Received(c), c,
                  IF ~validation
                  THEN createErrorMessage(HeartbeatRequest, "INVALID_PARAMS", "-")
                  ELSE createMessage(<<"connection", "heartbeat", "success">>,
                                     Payload({"latency"})))))
        /\ last' = [BlankLast EXCEPT !.ev = "frame", !.conn = c,
                      !.type = HeartbeatRequest,
                      !.text = IF validation THEN "valid" ELSE "invalid"]
  /\ nEvents' = nEvents + 1
  /\ UNCHANGED nCreates

\* acp:permission:response: a frame that fails validation is answered with
\* createErrorMessage(type, 'INVALID_PARAMS', ...); a valid one is logged
PermissionResponse == <<"acp", "permission", "response">>
PermissionPayloads ==
  {Undefined, Payload({"sessionId"}), Payload({"sessionId", "requestId", "outcome"})}
FramePermission(c, payload, missing) ==
  /\ wsConnection[c].socket = "open"
  /\ nEvents < MaxEvents
  /\ LET message == Without(createMessage(PermissionResponse, payload), missing)
         validation == validateMessage(PermissionResponse, message)
     IN /\ Commit(Drain(IF ~validation
                        THEN Send(Received(c), c,
                                  createErrorMessage(PermissionResponse,
                                                     "INVALID_PARAMS", "-"))
                        ELSE Received(c)))
        /\ last' = [BlankLast EXCEPT !.ev = "frame", !.conn = c,
                      !.type = PermissionResponse,
                      !.text = IF validation THEN "valid" ELSE "invalid"]
  /\ nEvents' = nEvents + 1
  /\ UNCHANGED nCreates

\* ------------------------------------------------- the client's id cache
\* the ids an incoming envelope may carry: none (0), one never seen, the oldest
\* and the newest of the cache
IncomingIds ==
  LET ids == client.processedMessageIds
  IN {0, client.issued + 1}
       \cup (IF ids = <<>> THEN {} ELSE {Head(ids), ids[Len(ids)]})

\* a variant of the effect that forgets the oldest id before it looks the id
\* up, which C32's property must reject
ClientMessageForgetful(id) ==
  /\ id <= MaxIds
  /\ LET ids == IF client.processedMessageIds = <<>> THEN <<>>
                ELSE Tail(client.processedMessageIds)
         seen == id # 0 /\ \E i \in 1..Len(ids) : ids[i] = id
     IN Commit([Pack EXCEPT
                  !.client.issued = IF id > @ THEN id ELSE @,
                  !.client.handled = id,
                  !.client.processed = ~seen,
                  !.client.processedMessageIds =
                     IF seen \/ id = 0 THEN ids ELSE Append(ids, id)])
  /\ last' = [BlankLast EXCEPT !.ev = "clientMessage"]
  /\ UNCHANGED <<nCreates, nEvents>>

\* ACPProvider's effect on lastMessage: an envelope whose id is in the cache is
\* skipped; any other id is added, and the first id of the Set deleted when the
\* Set has grown beyond the cap; then the switch on the type runs
ClientMessage(id) ==
  /\ id <= MaxIds
  /\ LET ids == client.processedMessageIds
         seen == id # 0 /\ \E i \in 1..Len(ids) : ids[i] = id
         added == IF id # 0 THEN Append(ids, id) ELSE ids
         over == Len(added) > MAX_PROCESSED_IDS
     IN Commit([Pack EXCEPT
                  !.client.issued = IF id > @ THEN id ELSE @,
                  !.client.handled = id,
                  !.client.processed = ~seen,
                  !.client.evicted = IF ~seen /\ over THEN Head(added) ELSE @,
                  !.client.processedMessageIds =
                     IF seen THEN ids
                     ELSE IF over THEN Tail(added) ELSE added])
  /\ last' = [BlankLast EXCEPT !.ev = "clientMessage"]
  /\ UNCHANGED <<nCreates, nEvents>>

\* ------------------------------------------------- the client's socket
\* a variant of the close handler that does not count the attempt, which
\* C33's property must reject
ClientCloseUncounted(code) ==
  /\ client.ws \in {"connecting", "open"}
  /\ Commit([Pack EXCEPT
               !.client.ws = "closed",
               !.client.connectionStatus = "disconnected",
               !.client.reconnectTimeout = 1000])
  /\ last' = [BlankLast EXCEPT !.ev = "clientClose", !.code = code]
  /\ UNCHANGED <<nCreates, nEvents>>

\* connect(), called by the mount effect (also after a refreshed token has
\* re-rendered the provider) and by the reconnect timer: nothing when the
\* socket is open, else a new socket
ClientConnect(byTimer) ==
  /\ IF byTimer THEN client.reconnectTimeout # 0 ELSE client.ws = "none"
  /\ Commit([Pack EXCEPT
               !.client.reconnectTimeout = 0,
               !.client.ws = IF @ = "open" THEN @ ELSE "connecting",
               !.client.connectionStatus = IF client.ws = "open" THEN @
                                           ELSE "connecting"])
  /\ last' = [BlankLast EXCEPT !.ev = "clientConnect"]
  /\ UNCHANGED <<nCreates, nEvents>>

\* socket.onopen
ClientOpen ==
  /\ client.ws = "connecting"
  /\ Commit([Pack EXCEPT !.client.ws = "open",
                         !.client.connectionStatus = "connected",
                         !.client.reconnectAttempts = 0])
  /\ last' = [BlankLast EXCEPT !.ev = "clientOpen"]
  /\ UNCHANGED <<nCreates, nEvents>>

\* socket.onclose(event) with event.code: 1008 clears the reconnect timer and
\* starts a token refresh; any other code schedules a reconnect while fewer
\* than maxReconnectAttempts were made, else sets the status to error
ClientClose(code) ==
  /\ client.ws \in {"connecting", "open"}
  /\ LET n == client.reconnectAttempts
         minimum == IF 1000 * 2^n < 30000 THEN 1000 * 2^n ELSE 30000
     IN Commit(
          IF code = "1008"
          THEN [Pack EXCEPT !.client.ws = "closed",
                            !.client.connectionStatus = "disconnected",
                            !.client.reconnectTimeout = 0,
                            !.client.isRefreshing = TRUE]
          ELSE IF n < maxReconnectAttempts
          THEN [Pack EXCEPT !.client.ws = "closed",
                            !.client.connectionStatus = "disconnected",
                            !.client.reconnectAttempts = n + 1,
                            !.client.reconnectTimeout = minimum]
          ELSE [Pack EXCEPT !.client.ws = "closed",
                            !.client.connectionStatus = "error"])
  /\ last' = [BlankLast EXCEPT !.ev = "clientClose", !.code = code]
  /\ UNCHANGED <<nCreates, nEvents>>

\* refreshToken() settles: a new token re-renders the provider, whose effect
\* disconnects and connects again; no token calls onAuthError
ClientRefreshed(success) ==
  /\ client.isRefreshing
  /\ success => client.tokens < MaxTokens
  /\ Commit(IF success
            THEN [Pack EXCEPT !.client.isRefreshing = FALSE,
                              !.client.tokens = @ + 1,
                              !.client.reconnectTimeout = 0,
                              !.client.ws = "connecting",
                              !.client.connectionStatus = "connecting"]
            ELSE [Pack EXCEPT !.client.isRefreshing = FALSE,
                              !.client.authError = TRUE])
  /\ last' = [BlankLast EXCEPT !.ev = "clientRefreshed",
                !.text = IF success THEN "token" ELSE "null"]
  /\ UNCHANGED <<nCreates, nEvents>>

\* ------------------------------------------------- the message helpers alone
\* what the helpers are applied to: every type of the enum, a type outside it
\* and a name without a colon; no payload, an empty object, and the objects
\* that have exactly the fields some schema requires
UnregisteredType == <<"invalid", "type">>
RequestTypes == MessageType \cup {UnregisteredType, <<"error">>}
Payloads == {Undefined} \cup {Payload(RequiredPayload(t)) : t \in MessageType}
ErrorCodes == {"INVALID_PARAMS", "INTERNAL_ERROR"}
Outcome(success) == IF success THEN "success" ELSE "failure"

\* createErrorMessage(requestType, code, message)
CallCreateErrorMessage(requestType, code) ==
  /\ Commit([Pack EXCEPT !.made = createErrorMessage(requestType, code, "-")])
  /\ last' = [BlankLast EXCEPT !.ev = "createErrorMessage", !.type = requestType,
                !.code = code]
  /\ UNCHANGED <<nCreates, nEvents>>

\* validateMessage(type, createMessage(type, payload))
CallValidateCreated(type, payload) ==
  /\ Commit([Pack EXCEPT !.made = createMessage(type, payload)])
  /\ last' = [BlankLast EXCEPT !.ev = "validateCreated", !.type = type,
                !.text = Outcome(validateMessage(type, createMessage(type, payload)))]
  /\ UNCHANGED <<nCreates, nEvents>>

\* validateMessage(type, data) for a message built by hand, with or without
\* the error object and with some root keys left out
CallValidateMessage(type, payload, withError, missing) ==
  LET whole == IF withError
               THEN [createMessage(type, payload) EXCEPT !.root = @ \cup {"error"}]
               ELSE createMessage(type, payload)
      data == Without(whole, missing)
  IN /\ Commit([Pack EXCEPT !.made = data])
     /\ last' = [BlankLast EXCEPT !.ev = "validateMessage", !.type = type,
                   !.text = Outcome(validateMessage(type, data))]
     /\ UNCHANGED <<nCreates, nEvents>>

\* ------------------------------------------------- subprocess events
Running(p) == processInfo[p].os = "running"

\* rl.on('line'): the listener reads processInfo.sessionId when the line arrives
LineEvent(p, message) ==
  Drain(handleProcessOutput(Pack, processInfo[p].sessionId, message))

\* what the line listener of process p looks up, recorded with the event
Dispatch(p) ==
  LET cur == processInfo[p].sessionId
  IN [BlankLast EXCEPT !.proc = p, !.key = cur,
        !.hsid = IF SetHas(handlers, cur) THEN SetGet(handlers, cur).sid ELSE NoSid]

\* the agent answers initialize or session/new (m), with an error or a result;
\* a session/new result names the agent's own session id, or none
AgentRespond(p, m, isError, newSid) ==
  /\ Running(p)
  /\ IF m = "initialize" THEN agent[p].init = "sent" ELSE agent[p].new = "sent"
  /\ m = "initialize" \/ isError => newSid = NoSid
  /\ LET message == [BlankMessage EXCEPT !.hasId = TRUE, !.id = <<p, m>>,
                       !.hasError = isError, !.hasResult = ~isError,
                       !.newSid = newSid]
         st == LineEvent(p, message)
     IN Commit(IF m = "initialize" THEN [st EXCEPT !.agent[p].init = "answered"]
               ELSE [st EXCEPT !.agent[p].new = "answered"])
  /\ last' = [Dispatch(p) EXCEPT !.ev = "response", !.text = m]
  /\ UNCHANGED <<nCreates, nEvents>>

\* the updates an agent may write: the kinds the translation knows, the older
\* name of the thought chunk, a kind it does not know, an update without
\* sessionUpdate and a value that is no object; for the tool calls each status
\* with and without a result
ACPUpdates ==
  { [NoACPUpdate EXCEPT !.sessionUpdate = k] :
      k \in {"agent_message_chunk", "agent_thought_chunk", "thought_chunk", "plan",
             "available_commands", "current_mode_update", "config_options",
             "user_message_chunk", "-"} }
  \cup { [NoACPUpdate EXCEPT !.isObject = FALSE] }
  \cup { [NoACPUpdate EXCEPT
            !.sessionUpdate = k,
            !.toolCall = [status |-> s, result |-> r,
                          content |-> IF r THEN "content" ELSE "-",
                          error |-> IF r /\ s = "error" THEN "reason" ELSE "-"]] :
          k \in {"tool_call", "tool_call_update"},
          s \in {"error", "completed", "in_progress", "-"}, r \in BOOLEAN }

\* the agent writes a session/update notification with the given update
AgentUpdateOf(p, acpUpdate) ==
  /\ Running(p)
  /\ nEvents < MaxEvents
  /\ Commit(LineEvent(p, [BlankMessage EXCEPT
                            !.method = "session/update",
                            !.update = [acpUpdate EXCEPT !.n = nEvents + 1]]))
  /\ last' = [Dispatch(p) EXCEPT !.ev = "update",
                !.text = acpUpdate.sessionUpdate,
                !.code = acpUpdate.toolCall.status,
                !.token = IF acpUpdate.toolCall.result THEN "result" ELSE "-",
                !.trig = IF agent[p].turns # <<>> THEN Head(agent[p].turns) ELSE NoRid]
  /\ nEvents' = nEvents + 1
  /\ UNCHANGED nCreates

\* the agent writes a session/update notification, a chunk of its message
AgentUpdate(p) ==
  /\ Running(p)
  /\ nEvents < MaxEvents
  /\ Commit(LineEvent(p, [BlankMessage EXCEPT
                            !.method = "session/update",
                            !.update = [NoACPUpdate EXCEPT
                                          !.sessionUpdate = "agent_message_chunk",
                                          !.n = nEvents + 1]]))
  /\ last' = [Dispatch(p) EXCEPT !.ev = "update",
                !.trig = IF agent[p].turns # <<>> THEN Head(agent[p].turns) ELSE NoRid]
  /\ nEvents' = nEvents + 1
  /\ UNCHANGED nCreates

\* the agent writes a request of its own (an id and a method)
AgentRequest(p) ==
  /\ Running(p)
  /\ nEvents < MaxEvents
  /\ Commit(LineEvent(p, [BlankMessage EXCEPT !.hasId = TRUE, !.id = <<0, "agent">>,
                            !.method = "session/request_permission"]))
  /\ last' = [Dispatch(p) EXCEPT !.ev = "agentRequest",
                !.trig = IF agent[p].turns # <<>> THEN Head(agent[p].turns) ELSE NoRid]
  /\ nEvents' = nEvents + 1
  /\ UNCHANGED nCreates

\* the agent ends its oldest turn with the response to that session/prompt
AgentFinal(p, stopReason) ==
  /\ Running(p)
  /\ agent[p].turns # <<>>
  /\ LET st == LineEvent(p, [BlankMessage EXCEPT !.hasId = TRUE, !.id = <<0, "prompt">>,
                               !.hasResult = TRUE, !.stopReason = stopReason])
     IN Commit([st EXCEPT !.agent[p].turns = Tail(@)])
  /\ last' = [Dispatch(p) EXCEPT !.ev = "final", !.trig = Head(agent[p].turns),
                                 !.text = stopReason]
  /\ UNCHANGED <<nCreates, nEvents>>

\* childProcess.stderr.on('data') with one line
AgentStderr(p, data) ==
  /\ Running(p)
  /\ nEvents < MaxEvents
  /\ LET cur == processInfo[p].sessionId
         hasError == data.patterns \cap errorPatterns # {}
     IN IF hasError /\ SetHas(handlers, cur) /\ SetGet(handlers, cur).onStderr
        THEN Commit(handleProcessStderr(Pack, SetGet(handlers, cur).sid, data))
        ELSE Commit(Pack)
  /\ last' = [Dispatch(p) EXCEPT !.ev = "stderr", !.text = data.text]
  /\ nEvents' = nEvents + 1
  /\ UNCHANGED nCreates

\* childProcess.on('close'): the listener of spawnProcess, whose sessionId is the
\* id the process was spawned with, then the listeners killProcess added
ProcessClose(p, code) ==
  /\ Running(p)
  /\ LET sessionId == T(p)
         st1 == [Pack EXCEPT !.processInfo[p].status = "closed",
                             !.processInfo[p].os = "exited",
                             !.agent[p] = [init |-> "none", new |-> "none",
                                           turns |-> <<>>]]
         st2 == IF SetHas(st1.handlers, sessionId)
                THEN handleProcessClose(st1, SetGet(st1.handlers, sessionId).sid, code)
                ELSE st1
         st3 == cleanup(st2, sessionId)
         st4 == [st3 EXCEPT !.micro = @ \o st3.killWaiters[p],
                            !.killWaiters[p] = <<>>,
                            !.killTimers[p] = 0]
     IN Commit(Drain(st4))
  /\ last' = [BlankLast EXCEPT !.ev = "exit", !.proc = p, !.code = code,
                !.key = processInfo[p].sessionId,
                !.hsid = IF SetHas(handlers, T(p)) THEN SetGet(handlers, T(p)).sid
                         ELSE NoSid]
  /\ UNCHANGED <<nCreates, nEvents>>

\* the 5 s timer of a killProcess call fires: SIGKILL is sent unless
\* process.killed is set, which kill('SIGTERM') has set already. The timer
\* changes nothing that Next's other actions read; it is an action of NextPair.
KillTimer(p) ==
  /\ killTimers[p] > 0
  /\ Commit([Pack EXCEPT
               !.killTimers[p] = @ - 1,
               !.processInfo[p].sigkill = @ \/ ~processInfo[p].killed])
  /\ last' = [BlankLast EXCEPT !.ev = "killTimer", !.proc = p,
                !.key = processInfo[p].sessionId]
  /\ UNCHANGED <<nCreates, nEvents>>

\* childProcess.on('error'): the spawn failed or a signal or write could not be
\* delivered; the listener's sessionId is the id the process was spawned with
ProcessError(p) ==
  /\ Running(p)
  /\ LET sessionId == T(p)
         st1 == [Pack EXCEPT !.processInfo[p].status = "error"]
         st2 == IF SetHas(st1.handlers, sessionId)
                THEN handleProcessError(st1, SetGet(st1.handlers, sessionId).sid)
                ELSE st1
     IN Commit(Drain(st2))
  /\ last' = [BlankLast EXCEPT !.ev = "procError", !.proc = p,
                !.key = processInfo[p].sessionId,
                !.hsid = IF SetHas(handlers, T(p)) THEN SetGet(handlers, T(p)).sid
                         ELSE NoSid]
  /\ UNCHANGED <<nCreates, nEvents>>

\* the setTimeout of sendRequestAndWait fires (30 seconds without a reply)
Timeout(k, m) ==
  /\ MapHas(pendingRequests, <<k, m>>)
  /\ Commit(Drain(Settle(Pack, <<k, m>>, "timeout", NoSid)))
  /\ last' = [BlankLast EXCEPT !.ev = "timeout", !.proc = k, !.text = m]
  /\ UNCHANGED <<nCreates, nEvents>>

\* ------------------------------------------------------------ specification
Methods == {"initialize", "session/new"}
\* the session ids a client frame may name: those handed out so far
KnownIds == {T(k) : k \in 1..nCreates} \cup {S(k) : k \in 1..nCreates}
ExitCodes == {"0", "1", "null"}

Next ==
  \/ \E c \in ConnIds : Connect(c)
  \/ \E c \in ConnIds : SocketClose(c)
  \/ \E c \in ConnIds, kind \in {"create", "initialize"} : FrameCreate(c, kind)
  \/ \E c \in ConnIds, sid \in KnownIds : FramePrompt(c, sid)
  \/ \E c \in ConnIds, sid \in KnownIds : FrameCancel(c, sid)
  \/ \E c \in ConnIds, sid \in KnownIds : FrameClose(c, sid)
  \/ \E c \in ConnIds : FrameLoad(c)
  \/ \E p \in K, m \in Methods, e \in BOOLEAN :
       \E n \in {NoSid, S(p)} : AgentRespond(p, m, e, n)
  \/ \E p \in K : AgentUpdate(p)
  \/ \E p \in K : AgentRequest(p)
  \/ \E p \in K, r \in {"end_turn", "cancelled"} : AgentFinal(p, r)
  \/ \E p \in K, d \in StderrLines : AgentStderr(p, d)
  \/ \E p \in K, code \in ExitCodes : ProcessClose(p, code)
  \/ \E p \in K : ProcessError(p)
  \/ \E k \in K, m \in Methods : Timeout(k, m)

Spec == Init /\ [][Next]_vars

\* Two sessions side by side: the handshakes of MaxSessions createSession /
\* initialize calls, their agents' answers, the correlator's timers and the
\* subprocess events, without the prompt traffic of Next
NextPair ==
  \/ \E c \in ConnIds : Connect(c)
  \/ \E c \in ConnIds : SocketClose(c)
  \/ \E c \in ConnIds, kind \in {"create", "initialize"} : FrameCreateUpTo(c, kind, MaxSessions)
  \/ \E p \in K, m \in Methods, e \in BOOLEAN :
       \E n \in {NoSid, S(p)} : AgentRespond(p, m, e, n)
  \/ \E p \in K, code \in ExitCodes : ProcessClose(p, code)
  \/ \E p \in K : ProcessError(p)
  \/ \E p \in K : KillTimer(p)
  \/ \E k \in K, m \in Methods : Timeout(k, m)

SpecPair == Init /\ [][NextPair]_vars

\* The socket layer alone: upgrades, liveness ticks, pongs, frames that are
\* answered without a session, and socket closes
NextWire ==
  \/ \E c \in ConnIds : Connect(c)
  \/ \E c \in ConnIds : SocketClose(c)
  \/ \E c \in ConnIds, token \in Tokens : UpgradeRejected(c, token)
  \/ \E c \in ConnIds : HeartbeatTick(c)
  \/ \E c \in ConnIds : Pong(c)
  \/ \E c \in ConnIds : FrameLoad(c)
  \/ \E c \in ConnIds, frame \in InvalidFrames, exits \in BOOLEAN : FrameInvalid(c, frame, exits)
  \/ \E c \in ConnIds, missing \in MissingKeys : FrameHeartbeat(c, missing)
  \/ \E c \in ConnIds, payload \in PermissionPayloads, missing \in MissingKeys :
       FramePermission(c, payload, missing)

SpecWire == Init /\ [][NextWire]_vars

\* The message helpers alone, applied to types and payloads of small sets
NextMsg ==
  \/ \E t \in RequestTypes, code \in ErrorCodes : CallCreateErrorMessage(t, code)
  \/ \E t \in RequestTypes, payload \in Payloads : CallValidateCreated(t, payload)
  \/ \E t \in RequestTypes, payload \in Payloads, e \in BOOLEAN, missing \in MissingKeys :
       CallValidateMessage(t, payload, e, missing)

SpecMsg == Init /\ [][NextMsg]_vars

\* The client's cache of processed envelope ids alone
NextCache == \E id \in IncomingIds : ClientMessage(id)

SpecCache == Init /\ [][NextCache]_vars

\* The client's socket alone: connect, open, close, reconnect, token refresh
NextSocket ==
  \/ \E byTimer \in BOOLEAN : ClientConnect(byTimer)
  \/ ClientOpen
  \/ \E code \in {"1000", "1006", "1008"} : ClientClose(code)
  \/ \E success \in BOOLEAN : ClientRefreshed(success)

SpecSocket == Init /\ [][NextSocket]_vars

\* What one session relays: its creation, the agent's updates of every kind,
\* the agent's permission requests and the client's permission responses
NextRelay ==
  \/ \E c \in ConnIds : Connect(c)
  \/ \E c \in ConnIds : FrameCreate(c, "create")
  \/ \E p \in K, m \in Methods :
       \E n \in {NoSid, S(p)} : AgentRespond(p, m, FALSE, n)
  \/ \E p \in K, u \in ACPUpdates : AgentUpdateOf(p, u)
  \/ \E p \in K : AgentRequest(p)
  \/ \E c \in ConnIds, payload \in PermissionPayloads, missing \in MissingKeys :
       FramePermission(c, payload, missing)

SpecRelay == Init /\ [][NextRelay]_vars

\* ------------------------------------------------------------------ claims
PromptSendRequest == <<"acp", "prompt", "send", "request">>
PromptCancelRequest == <<"acp", "prompt", "cancel", "request">>
SessionCloseRequest == <<"acp", "session", "close", "request">>
PromptUpdate == <<"acp", "prompt", "update">>
PromptComplete == <<"acp", "prompt", "complete">>
SessionError == <<"acp", "session", "error">>

\* the error sibling of a request type
ErrorSibling(type) == [type EXCEPT ![Len(type)] = "error"]

\* no createSession / initialize call is between two awaits and no closeSession
\* is waiting for a subprocess to exit
Quiescent ==
  /\ \A k \in K : call[k].pc \in {"idle", "done"}
  /\ \A k \in K : killWaiters[k] = <<>>

\* the owner recorded in the session table for a session id
OwnerOf(sid) == sessionInfo[MapGet(sessions, sid).obj].connectionId
StatusOf(sid) == sessionInfo[MapGet(sessions, sid).obj].status

\* the last event was a stdout line of a subprocess
LineEvents == {"response", "update", "agentRequest", "final"}

\* C1: every acp:prompt:update the gateway emits while a prompt's turn is running
\* carries, as requestId, the envelope id of the acp:prompt:send:request that
\* started that turn (never 'unknown', never another prompt's id).
C1_UpdateCarriesPromptId ==
  \A i \in 1..Len(out) :
    out[i].type = PromptUpdate /\ last.ev = "update" /\ last.trig # NoRid
      => out[i].requestId = last.trig

\* C2: an acp:prompt:complete is emitted only when the final response of an
\* accepted prompt arrives, and once for it: never for another id-bearing line
\* of the subprocess (a late handshake response, a request of the agent).
C2_CompleteOnlyForFinalResponse ==
  LET completes == {i \in 1..Len(out) : out[i].type = PromptComplete}
  IN /\ completes # {} => last.ev = "final"
     /\ Cardinality(completes) <= 1

\* C3: a prompt frame naming a session that another connection owns is answered
\* with acp:prompt:send:error / UNAUTHORIZED and nothing else happens: no line is
\* written to the subprocess, no pending client prompt is recorded, and the
\* session, its subprocess and the owner's connection are as they were.
C3_NonOwnerPromptRejected ==
  [][ ( /\ last'.ev = "frame"
        /\ last'.type = PromptSendRequest
        /\ MapHas(sessions, last'.sid)
        /\ OwnerOf(last'.sid) # last'.conn )
      => /\ Len(out') = 1
         /\ out'[1].to = last'.conn
         /\ out'[1].type = <<"acp", "prompt", "send", "error">>
         /\ out'[1].code = "UNAUTHORIZED"
         /\ wrote' = <<>>
         /\ wsPendingRequests' = wsPendingRequests
         /\ sessions' = sessions
         /\ sessionInfo' = sessionInfo
         /\ processes' = processes
         /\ processInfo' = processInfo
         /\ handlers' = handlers
         /\ notificationHandlers' = notificationHandlers
         /\ pendingRequests' = pendingRequests
         /\ agent' = agent
         /\ wsConnection'[OwnerOf(last'.sid)] = wsConnection[OwnerOf(last'.sid)]
    ]_vars

\* C3 happens: the last frame was a prompt for a session of another connection
\* and it was answered UNAUTHORIZED
C3_Witness ==
  /\ last.ev = "frame"
  /\ last.type = PromptSendRequest
  /\ MapHas(sessions, last.sid)
  /\ OwnerOf(last.sid) # last.conn
  /\ StatusOf(last.sid) = "active"
  /\ Len(out) = 1
  /\ out[1].code = "UNAUTHORIZED"

\* C4: a close or cancel frame naming a session that another connection owns is
\* answered with the request's error sibling / UNAUTHORIZED, the session is not
\* closed, no session/cancel is written, and the owner's state is as it was.
C4_NonOwnerCloseCancelRejected ==
  [][ ( /\ last'.ev = "frame"
        /\ last'.type \in {PromptCancelRequest, SessionCloseRequest}
        /\ MapHas(sessions, last'.sid)
        /\ OwnerOf(last'.sid) # last'.conn )
      => /\ Len(out') = 1
         /\ out'[1].to = last'.conn
         /\ out'[1].type = ErrorSibling(last'.type)
         /\ out'[1].code = "UNAUTHORIZED"
         /\ wrote' = <<>>
         /\ sessions' = sessions
         /\ sessionInfo' = sessionInfo
         /\ processInfo' = processInfo
         /\ killWaiters' = killWaiters
         /\ wsConnection'[OwnerOf(last'.sid)] = wsConnection[OwnerOf(last'.sid)]
    ]_vars

\* C5: once a connection's socket has closed, its liveness timer is cancelled,
\* it is out of the connection table, no pending client prompt names it and,
\* when nothing is in progress any more, no session of the session table has
\* its connection id.
C5_ClosedConnectionLeavesNoSession ==
  \A c \in ConnIds :
    wsConnection[c].socket = "closed" =>
      /\ ~wsConnection[c].heartbeatInterval
      /\ c \notin connections
      /\ \A i \in 1..Len(wsPendingRequests) : wsPendingRequests[i].connectionId # c
      /\ Quiescent =>
           \A i \in 1..Len(sessions) : sessionInfo[sessions[i].obj].connectionId # c

\* C6: at every quiescent point the ids of the session table are exactly the
\* union of the sessionIds sets of the registered connections.
C6_SessionTableIsUnionOfOwnedSets ==
  Quiescent =>
    {sessions[i].key : i \in 1..Len(sessions)}
      = UNION {wsConnection[c].sessionIds : c \in connections}

\* C7: at every quiescent point every active session has a live subprocess in
\* the process table under its id, and every entry of the process table belongs
\* to an active session.
C7_ProcessesMatchActiveSessions ==
  Quiescent =>
    /\ \A i \in 1..Len(sessions) :
         sessionInfo[sessions[i].obj].status = "active" =>
           /\ SetHas(processes, sessions[i].key)
           /\ processInfo[SetGet(processes, sessions[i].key).proc].os = "running"
    /\ \A e \in processes :
         /\ MapHas(sessions, e.key)
         /\ StatusOf(e.key) = "active"

C9_StderrErrorPromoted ==
  ( /\ last.ev = "stderr"
    /\ \E d \in StderrLines :
         d.text = last.text /\ d.patterns \cap errorPatterns # {}
    /\ SetHas(notificationHandlers, last.key)
    /\ SetGet(notificationHandlers, last.key).connectionId \in connections )
  => /\ Len(out) = 1
     /\ out[1].to = SetGet(notificationHandlers, last.key).connectionId
     /\ out[1].type = SessionError
     /\ out[1].sessionId = last.key
     /\ out[1].code = "API_ERROR"
     /\ out[1].details = last.text
     /\ \E d \in StderrLines : d.text = last.text /\ out[1].message = errorMessage(d)

\* C10: when the subprocess of an active session, whose notification handler
\* and connection are registered, exits on its own with a non-zero code or a
\* signal, the process entry and the handler entry of the session's current id
\* are removed, the client receives acp:session:error with the exit text, and
\* the session is removed from the session table.
C10_ExitClosesSession ==
  [][ LET cur == processInfo[last'.proc].sessionId
      IN ( /\ last'.ev = "exit"
           /\ last'.code # "0"
           /\ MapHas(sessions, cur)
           /\ StatusOf(cur) = "active"
           /\ SetHas(notificationHandlers, cur)
           /\ SetGet(notificationHandlers, cur).connectionId \in connections )
         => /\ ~SetHas(processes', cur)
            /\ ~SetHas(handlers', cur)
            /\ ~MapHas(sessions', cur)
            /\ \E i \in 1..Len(out') :
                 /\ out'[i].type = SessionError
                 /\ out'[i].sessionId = cur
                 /\ out'[i].details = ExitLine(last'.code).text
    ]_vars
\* the position at which a createSession / initialize call awaits request m
AwaitOf(m) == IF m = "initialize" THEN "awaitInit" ELSE "awaitNew"

\* C11: the pending table holds each id at most once and holds exactly the
\* requests whose caller is still awaiting them; an entry leaves the table only
\* in the event that settles it (a response, the timeout, a process error), in
\* which its caller is resumed, so no entry is settled twice and no settled
\* entry stays in the table.
C11_PendingSettledOnce ==
  [][ /\ \A i, j \in 1..Len(pendingRequests') :
           i # j => pendingRequests'[i].key # pendingRequests'[j].key
      /\ \A k \in K, m \in Methods :
           /\ MapHas(pendingRequests', <<k, m>>) <=> call'[k].pc = AwaitOf(m)
           /\ ( MapHas(pendingRequests, <<k, m>>)
                  /\ ~MapHas(pendingRequests', <<k, m>>) )
              => /\ last'.ev \in {"response", "timeout", "procError"}
                 /\ call[k].pc = AwaitOf(m)
                 /\ call'[k].pc # AwaitOf(m)
    ]_vars

\* C11 happens: the timeout settled the initialize request of a call, which is
\* now tearing its session down, and the table is empty
C11_Witness ==
  /\ last.ev = "timeout"
  /\ last.text = "initialize"
  /\ call[last.proc].pc = "awaitKill"
  /\ pendingRequests = <<>>
SessionCloseSuccess == <<"acp", "session", "close", "success">>

\* the ids the session of call k has had
IdsOf(k) == {T(k), S(k)}

\* the step deletes the session of call k from the session table (closeSession
\* completes); a rename keeps the session in the table under its new id
InTable(tbl, k) == \E i \in 1..Len(tbl) : tbl[i].obj = k
DeletedInStep(k) == InTable(sessions, k) /\ ~InTable(sessions', k)

\* C12: when closeSession completes for a session that existed (the session
\* leaves the table, and acp:session:close:success is emitted if a client asked),
\* every pending correlator entry issued for that session has been rejected
\* and removed: none of them remains in the table.
C12_CloseLeavesNoPending ==
  [][ \A k \in K :
        DeletedInStep(k) =>
          \A m \in Methods : ~MapHas(pendingRequests', <<k, m>>)
    ]_vars

\* the pending correlator entries of call k and the call itself are as before
PendingUntouched(k) ==
  /\ \A m \in Methods : MapHas(pendingRequests, <<k, m>>) <=> MapHas(pendingRequests', <<k, m>>)
  /\ call'[k] = call[k]

\* C13: a process error, exit or close event of one session never rejects,
\* resolves or removes a pending request that was issued for a different
\* session: the entries of every other call, and the call awaiting them, are
\* left as they were.
C13_OtherSessionsPendingUntouched ==
  [][ last'.ev \in {"procError", "exit"} =>
        \A b \in K \ {last'.proc} : PendingUntouched(b)
    ]_vars

SessionCreateError == <<"acp", "session", "create", "error">>
SessionCreateSuccess == <<"acp", "session", "create", "success">>

\* the step ends call k of createSession in its catch branch: the handler of
\* acp:session:create:request is resumed with success: false
CreateFailedInStep(k) ==
  /\ call[k].pc \in {"awaitInit", "awaitNew", "awaitKill"}
  /\ call'[k].pc = "done"
  /\ call'[k].kind = "create"
  /\ ~sessionInfo'[k].isInitialized

\* nothing of the session of call k is left in the bridge
TornDown(k) ==
  /\ ~InTable(sessions', k)
  /\ \A e \in processes' : e.proc # k
  /\ processInfo'[k].os = "exited"
  /\ \A m \in Methods : ~MapHas(pendingRequests', <<k, m>>)

SuccessSibling(type) == [type EXCEPT ![Len(type)] = "success"]

\* the handler of the last frame has run to its end: no createSession or
\* closeSession started by it is still awaited
HandlerFinished ==
  /\ \A k \in K : call[k].pc \in {"idle", "done"}
  /\ \A k \in K : killWaiters[k] = <<>>

\* C15: a request envelope of the closed type set is answered with the
\* :success or :error envelope of the same prefix. Once the handler of an
\* acp:session:load:request frame has run to its end on an open connection,
\* the envelopes it sent include acp:session:load:success or
\* acp:session:load:error.
C15_RequestAnsweredWithSamePrefix ==
  ( /\ last.ev = "frame" /\ last.type = SessionLoadRequest
    /\ wsConnection[last.conn].socket = "open"
    /\ HandlerFinished )
  => \E i \in 1..Len(out) :
       /\ out[i].to = last.conn
       /\ out[i].type \in {SuccessSibling(last.type), ErrorSibling(last.type)}

PermissionRequest == <<"acp", "permission", "request">>

\* the envelopes a session's agent output is turned into
SessionTraffic == {PromptUpdate, PromptComplete, SessionError, PermissionRequest}

\* C16: once acp:session:close:success has been emitted for an existing
\* session S, no further envelope referring to S (acp:prompt:update,
\* acp:prompt:complete, acp:session:error, acp:permission:request) is emitted:
\* not in a later event, and not later in the event that emitted the
\* acknowledgement.
C16_NothingAfterCloseSuccess ==
  [][ \A i \in 1..Len(out') :
        out'[i].type \in SessionTraffic =>
          /\ out'[i].sessionId \notin closeAcked
          /\ \A j \in 1..(i - 1) :
                ~ ( /\ out'[j].type = SessionCloseSuccess
                    /\ out'[j].sessionId = out'[i].sessionId
                    /\ out'[j].sessionId \in closeAcked' )
    ]_vars

\* C16 happens: the close of a session that had been created for a client was
\* acknowledged, its notification handler is still registered, and a later
\* event has been handled
C16_Witness ==
  /\ \E sid \in closeAcked : SetHas(notificationHandlers, sid)
  /\ last.ev \notin {"exit", "frame"}

PromptSendSuccess == <<"acp", "prompt", "send", "success">>
RangeOf(seq) == {seq[i] : i \in 1..Len(seq)}

\* C17: acp:prompt:send:success is sent before any acp:prompt:update produced
\* by that prompt. The event that writes the session/prompt line of request R
\* to the agent (R becomes a turn of the agent) sends exactly one envelope,
\* acp:prompt:send:success with requestId R, to the sender; and an
\* acp:prompt:update is only sent by a later event, the arrival of a
\* session/update line, whose turn (if any) was written by an earlier event.
C17_SuccessBeforeUpdates ==
  [][ /\ \A p \in K :
           \A r \in RangeOf(agent'[p].turns) \ RangeOf(agent[p].turns) :
             /\ Len(out') = 1
             /\ out'[1].type = PromptSendSuccess
             /\ out'[1].requestId = r
             /\ out'[1].to = last'.conn
      /\ \A i \in 1..Len(out') :
           out'[i].type = PromptUpdate =>
             /\ last'.ev = "update"
             /\ RangeOf(agent'[last'.proc].turns) \subseteq RangeOf(agent[last'.proc].turns)
             /\ last'.trig # NoRid => last'.trig \in RangeOf(agent[last'.proc].turns)
    ]_vars

\* C17 happens: an update of a running prompt reached the client
C17_Witness ==
  /\ last.ev = "update" /\ last.trig # NoRid
  /\ \E i \in 1..Len(out) : out[i].type = PromptUpdate

\* C18: acp:prompt:complete is the last envelope a client sees carrying a
\* given requestId. When an event has sent a client acp:prompt:complete with
\* requestId r, the next event, if it is agent output of a prompt that is
\* still running, sends that client no acp:prompt:update and no
\* acp:permission:request with the same requestId r.
C18_CompleteIsLastForRequestId ==
  [][ \A i \in 1..Len(out), j \in 1..Len(out') :
        ( /\ out[i].type = PromptComplete
          /\ out'[j].type \in {PromptUpdate, PermissionRequest}
          /\ out'[j].to = out[i].to
          /\ last'.trig # NoRid )
        => out'[j].requestId # out[i].requestId
    ]_vars

\* the connection a line of process p is forwarded to: the handler registered
\* under the process's current id names a session, the notification handler of
\* that session names a connection, and the connection is registered and open
Reaches(p, c) ==
  LET cur == processInfo[p].sessionId
  IN /\ SetHas(handlers, cur)
     /\ SetHas(notificationHandlers, SetGet(handlers, cur).sid)
     /\ SetGet(notificationHandlers, SetGet(handlers, cur).sid).connectionId = c
     /\ c \in connections
     /\ wsConnection[c].socket = "open"

AckedInStep(sid) ==
  /\ sid \in closeAcked' \ closeAcked
  /\ \E i \in 1..Len(out') :
       out'[i].type = SessionCloseSuccess /\ out'[i].sessionId = sid

\* C20: for a close of an existing session the subprocess has exited (its
\* 'close' event has fired) before the session is deleted from the session
\* table, and acp:session:close:success is emitted only after both, also when
\* closes of the same session overlap. A step that deletes a session finds its
\* subprocess exited; a step that acknowledges the close of a session, named
\* by the id the session has, finds the session out of the table and its
\* subprocess exited.
C20_ExitThenDeleteThenSuccess ==
  [][ \A k \in K :
        /\ DeletedInStep(k) => processInfo'[k].os = "exited"
        /\ AckedInStep(sessionInfo[k].sessionId) =>
             /\ ~InTable(sessions', k)
             /\ processInfo'[k].os = "exited"
    ]_vars

\* C20 happens: a client's close of a running session, overlapping with the
\* exit handler's own close, was acknowledged in the event of the exit
C20_Witness ==
  /\ last.ev = "exit" /\ last.hsid # NoSid
  /\ last.key \in closeAcked
  /\ \E i \in 1..Len(out) :
       out[i].type = SessionCloseSuccess /\ out[i].sessionId = last.key
  /\ ~InTable(sessions, last.proc)
  /\ call[last.proc].kind = "create"
  /\ SetHas(notificationHandlers, last.key)

\* C21: killProcess on a live process sends SIGTERM and, if the process has
\* not exited 5 seconds later, SIGKILL, so that the close completes even for a
\* process that ignores SIGTERM. When the timer of a killProcess call fires
\* and the subprocess is still running, SIGKILL has been sent to it.
C21_KillTimerSendsSigkill ==
  [][ ( last'.ev = "killTimer" /\ processInfo[last'.proc].os = "running" )
      => processInfo'[last'.proc].sigkill
    ]_vars

\* the error code the gateway owes a frame that fails the checks before the
\* switch
CodeOwed(frame) == IF frame = "unknowntype" THEN "UNKNOWN_TYPE" ELSE "INVALID_MESSAGE"

\* C22: every frame on an authenticated socket that fails application-level
\* validation is answered and never closes the connection: text that is not
\* JSON and any JSON value without a type field (null included) get
\* system:error / INVALID_MESSAGE, an unknown type gets system:error /
\* UNKNOWN_TYPE, and the connection stays registered and open.
C22_InvalidFrameAnswered ==
  [][ last'.ev = "invalidFrame" =>
        /\ Len(out') = 1
        /\ out'[1].to = last'.conn
        /\ out'[1].type = <<"system", "error">>
        /\ out'[1].code = CodeOwed(last'.text)
        /\ last'.conn \in connections'
        /\ wsConnection'[last'.conn].socket = "open"
    ]_vars

\* C23: an upgrade without a token is closed with 1008 'Authentication
\* required', one whose token fails verification with 1008 'Invalid token'; in
\* both cases no connection is registered, no connection:established:success
\* is sent, no liveness timer is started, and no event of that socket is ever
\* dispatched afterwards.
C23_RefusedUpgradeLeavesNothing ==
  [][ /\ last'.ev = "upgradeRejected" =>
           /\ last'.code = "1008"
           /\ last'.token = "absent" => last'.text = "Authentication required"
           /\ last'.token \in {"expired", "forged"} => last'.text = "Invalid token"
           /\ out' = <<>>
           /\ connections' = connections
           /\ ~wsConnection'[last'.conn].heartbeatInterval
           /\ wsConnection'[last'.conn].sessionIds = {}
      /\ \A c \in ConnIds :
           wsConnection[c].socket = "rejected" =>
             /\ wsConnection'[c] = wsConnection[c]
             /\ c \notin connections'
             /\ last'.conn # c
             /\ \A i \in 1..Len(out') : out'[i].to # c
    ]_vars

\* C23 happens: an upgrade was refused for a token that does not verify and,
\* later, the liveness timer of another connection ticked
C23_Witness ==
  /\ \E c \in ConnIds : wsConnection[c].socket = "rejected"
  /\ last.ev = "tick"

\* the events in which a connection receives a message or a pong
Activity == {"frame", "invalidFrame", "pong"}

\* C24: at each liveness tick of a connection, a false flag terminates the
\* socket and stops the timer, a true flag is cleared (and a ping is sent); any
\* received message or pong sets the flag. Hence the liveness check terminates
\* a connection only at a tick that finds the flag false, that is when nothing
\* was received since the tick before, and a connection that received
\* something since the tick before is not terminated.
C24_LivenessTick ==
  [][ /\ last'.ev = "tick" =>
           /\ ~wsConnection[last'.conn].isAlive =>
                /\ wsConnection'[last'.conn].socket = "terminated"
                /\ ~wsConnection'[last'.conn].heartbeatInterval
           /\ wsConnection[last'.conn].isAlive =>
                /\ wsConnection'[last'.conn].socket = "open"
                /\ wsConnection'[last'.conn].heartbeatInterval
                /\ ~wsConnection'[last'.conn].isAlive
      /\ ( last'.ev \in Activity /\ wsConnection'[last'.conn].socket = "open" )
           => wsConnection'[last'.conn].isAlive
      /\ \A c \in ConnIds :
           /\ ( wsConnection[c].socket = "open" /\ wsConnection'[c].socket = "terminated" )
                => ( last'.ev = "tick" /\ last'.conn = c /\ ~wsConnection[c].isAlive )
           /\ ( wsConnection[c].isAlive /\ ~wsConnection'[c].isAlive )
                => ( last'.ev = "tick" /\ last'.conn = c )
    ]_vars

\* C24 happens: a tick found a connection silent since the tick before and
\* terminated it, in a run in which a frame had been received before
C24_Witness ==
  /\ last.ev = "tick"
  /\ wsConnection[last.conn].socket = "terminated"
  /\ nEvents >= 1

PromptCancelSuccess == <<"acp", "prompt", "cancel", "success">>

\* C25: acp:prompt:cancel:request for an active session writes exactly one
\* session/cancel notification to the session's subprocess, registers no
\* pending request and is answered acp:prompt:cancel:success at once; and the
\* final response that follows the cancellation is delivered as
\* acp:prompt:complete for the original requestId with stopReason cancelled.
C25_CancelThenCompleteForRequest ==
  [][ /\ ( /\ last'.ev = "frame" /\ last'.type = PromptCancelRequest
            /\ MapHas(sessions, last'.sid)
            /\ StatusOf(last'.sid) = "active"
            /\ SetHas(processes, last'.sid)
            /\ processInfo[SetGet(processes, last'.sid).proc].status # "closed" )
         => /\ Len(wrote') = 1
            /\ wrote'[1].method = "session/cancel"
            /\ wrote'[1].sessionId = last'.sid
            /\ pendingRequests' = pendingRequests
            /\ wsPendingRequests' = wsPendingRequests
            /\ Len(out') = 1
            /\ out'[1].type = PromptCancelSuccess
            /\ out'[1].to = last'.conn
      /\ \A c \in ConnIds :
           ( /\ last.ev = "frame" /\ last.type = PromptCancelRequest
             /\ last'.ev = "final" /\ last'.text = "cancelled"
             /\ last.sid = last'.key
             /\ Reaches(last'.proc, c) )
           => \E i \in 1..Len(out') :
                /\ out'[i].type = PromptComplete
                /\ out'[i].to = c
                /\ out'[i].stopReason = "cancelled"
                /\ out'[i].requestId = last'.trig
    ]_vars

PromptSendError == <<"acp", "prompt", "send", "error">>

\* C26: an acp:prompt:send:request naming a session that does not exist, or
\* one of the sender's sessions (named by the id the agent gave it) whose
\* status is closed, is answered with
\* acp:prompt:send:error / SESSION_NOT_FOUND; nothing is written to a
\* subprocess and no pending client prompt stays recorded for it.
C26_PromptForClosedSessionNotFound ==
  [][ ( /\ last'.ev = "frame" /\ last'.type = PromptSendRequest
        /\ \/ ~MapHas(sessions, last'.sid)
           \/ /\ last'.sid \in {S(k) : k \in K}
              /\ StatusOf(last'.sid) = "closed"
              /\ OwnerOf(last'.sid) = last'.conn )
      => /\ Len(out') = 1
         /\ out'[1].to = last'.conn
         /\ out'[1].type = PromptSendError
         /\ out'[1].code = "SESSION_NOT_FOUND"
         /\ wrote' = <<>>
         /\ wsPendingRequests' = wsPendingRequests
    ]_vars

\* the session table, the process table and the handler tables are as before
TablesUnchanged ==
  /\ sessions' = sessions /\ sessionInfo' = sessionInfo
  /\ processes' = processes /\ processInfo' = processInfo
  /\ handlers' = handlers /\ notificationHandlers' = notificationHandlers
  /\ pendingRequests' = pendingRequests /\ wsPendingRequests' = wsPendingRequests
  /\ call' = call /\ connections' = connections

C28_ErrorTypeDerived ==
  ( last.ev = "createErrorMessage" /\ last.type \in MessageType ) =>
    LET requestType == last.type
        n == Len(requestType)
    IN /\ made.type = IF requestType[n] = "request"
                      THEN [requestType EXCEPT ![n] = "error"]
                      ELSE <<"system", "error">>
       /\ "error" \in made.root /\ made.code = last.code
       /\ "payload" \notin made.root

\* C29: every envelope the gateway writes to a client socket has a type that
\* is one of the 28 valid message types, the replies to frames that fail
\* validation included.
C29_EnvelopeTypesClosed ==
  \A i \in 1..Len(out) : isValidMessageType(out[i].type)

\* C30: for every type of the registry and every payload valid for it (no
\* payload where the type has none), validateMessage(type, createMessage(type,
\* payload)) succeeds; and validateMessage fails for a message without id or
\* without timestamp and for a type that is not in the registry.
C30_CreatedMessagesValidate ==
  /\ ( /\ last.ev = "validateCreated"
       /\ last.type \in DOMAIN Schemas
       /\ Schemas[last.type].payloadObject =>
             /\ made.payload.given
             /\ Schemas[last.type].required \subseteq made.payload.keys )
     => last.text = "success"
  /\ ( /\ last.ev \in {"validateCreated", "validateMessage"}
       /\ \/ last.type \notin DOMAIN Schemas
          \/ "id" \notin made.root
          \/ "timestamp" \notin made.root )
     => last.text = "failure"

\* C31: a valid acp:permission:response is forwarded upstream. When the agent
\* of a session has written a session/request_permission request and the
\* client that owns the session answers with a valid acp:permission:response,
\* the event of the answer writes exactly one line to the subprocess of that
\* session.
C31_PermissionResponseForwarded ==
  [][ ( /\ last.ev = "agentRequest"
        /\ last'.ev = "frame" /\ last'.type = PermissionResponse
        /\ last'.text = "valid"
        /\ last.key \in wsConnection[last'.conn].sessionIds )
      => /\ Len(wrote') = 1
         /\ wrote'[1].proc = last.proc
    ]_vars

\* C32: the client's cache of processed envelope ids never holds more than
\* 1000 ids once a message is handled; when the cap is exceeded the id
\* inserted first is the one evicted; and an envelope whose id is in the
\* cache is not processed again (nor does it change the cache).
C32_ProcessedIdsCapped ==
  [][ LET ids == client.processedMessageIds
          id == client'.handled
          cached == \E i \in 1..Len(ids) : ids[i] = id
      IN last'.ev = "clientMessage" =>
           /\ Len(client'.processedMessageIds) <= MAX_PROCESSED_IDS
           /\ ( id # 0 /\ cached ) =>
                 /\ ~client'.processed
                 /\ client'.processedMessageIds = ids
           /\ ( id # 0 /\ ~cached ) =>
                 /\ client'.processed
                 /\ client'.processedMessageIds =
                      IF Len(ids) = MAX_PROCESSED_IDS
                      THEN Append(Tail(ids), id) ELSE Append(ids, id)
    ]_vars

\* C32 happens: the cache is full, its oldest id has been evicted, and an
\* envelope carrying the newest cached id has just been skipped
C32_Witness ==
  /\ Len(client.processedMessageIds) = MAX_PROCESSED_IDS
  /\ client.evicted # 0
  /\ last.ev = "clientMessage" /\ ~client.processed
  /\ client.handled = client.processedMessageIds[MAX_PROCESSED_IDS]

\* C33: the client's socket reconnects with exponential backoff. A close with a
\* code other than 1008 while fewer than maxReconnectAttempts attempts were
\* made schedules exactly one reconnect after min(1000 * 2^n, 30000) ms and
\* then counts the attempt; with the attempts used up it sets the status to
\* error and schedules nothing. An open resets the count to 0. A close with
\* code 1008 schedules no reconnect and starts a token refresh, whose failure
\* calls onAuthError.
C33_ReconnectBackoff ==
  [][LET n == client.reconnectAttempts
         delay == IF 1000 * 2^n < 30000 THEN 1000 * 2^n ELSE 30000
     IN /\ (last'.ev = "clientClose" /\ last'.code # "1008"
             /\ n < maxReconnectAttempts)
           => /\ client.reconnectTimeout = 0
              /\ client'.reconnectTimeout = delay
              /\ client'.reconnectAttempts = n + 1
              /\ ~client'.isRefreshing
        /\ (last'.ev = "clientClose" /\ last'.code # "1008"
             /\ n >= maxReconnectAttempts)
           => /\ client'.connectionStatus = "error"
              /\ client'.reconnectTimeout = 0
              /\ client'.reconnectAttempts = n
        /\ (last'.ev = "clientClose" /\ last'.code = "1008")
           => /\ client'.reconnectTimeout = 0
              /\ client'.isRefreshing
              /\ client'.reconnectAttempts = n
        /\ last'.ev = "clientOpen" => client'.reconnectAttempts = 0
        /\ (last'.ev = "clientRefreshed" /\ last'.text = "null")
           => client'.authError]_vars

\* the fifth reconnect has failed too: status error, nothing scheduled
C33_Witness ==
  /\ last.ev = "clientClose"
  /\ last.code # "1008"
  /\ client.reconnectAttempts = maxReconnectAttempts
  /\ client.connectionStatus = "error"
  /\ client.reconnectTimeout = 0

\* C34: handleProcessMessage takes exactly one of three ways with a message of
\* the subprocess. A message whose id is pending settles that entry (the
\* awaiting call is rejected when the message has an error) and nothing is
\* forwarded; a message with an id that is not pending reaches the session's
\* notification handler as a session/prompt notification with the result, or
\* with stopReason unknown when there is none, which the route relays as one
\* acp:prompt:complete; a notification reaches the handler as it is, relayed
\* as one acp:prompt:update. sendPrompt adds nothing to the pending table.
C34_MessageClassified ==
  [][LET id == <<last'.proc, last'.text>>
         isPending == last'.ev = "response" /\ MapHas(pendingRequests, id)
         relayed == {i \in 1..Len(out') :
                       out'[i].type \in {PromptComplete, PromptUpdate}}
     IN /\ (last'.ev = "response" /\ last'.hsid # NoSid /\ isPending)
           => /\ ~MapHas(pendingRequests', id)
              /\ Len(pendingRequests') <= Len(pendingRequests)
              /\ call'[id[1]].pc # AwaitOf(id[2])
              /\ relayed = {}
        /\ \A c \in ConnIds :
             ( last'.ev \in {"response", "final", "agentRequest"} /\ ~isPending
               /\ Reaches(last'.proc, c) )
             => /\ Len(out') = 1
                /\ out'[1].type = PromptComplete
                /\ out'[1].to = c
                /\ out'[1].stopReason = IF last'.ev = "final" THEN last'.text
                                        ELSE "end_turn"
                /\ pendingRequests' = pendingRequests
        /\ \A c \in ConnIds :
             (last'.ev = "update" /\ Reaches(last'.proc, c))
             => /\ Len(out') = 1
                /\ out'[1].type = PromptUpdate
                /\ out'[1].to = c
                /\ pendingRequests' = pendingRequests
        /\ (last'.ev = "frame" /\ last'.type = <<"acp", "prompt", "send", "request">>)
           => pendingRequests' = pendingRequests]_vars

\* a request of the agent's own, its id not pending, has been relayed as the
\* end of a prompt
C34_Witness ==
  /\ last.ev = "agentRequest"
  /\ ~MapHas(pendingRequests, <<0, "agent">>)
  /\ Len(out) = 1
  /\ out[1].type = PromptComplete
  /\ out[1].stopReason = "end_turn"
  /\ out[1].sessionId = last.hsid

\* C35: the migration in createSession is one step. Right after it the
\* tentative id is a key of none of the session table, the process table and
\* the handler table, the new id is a key of all three, and the session record
\* and the process handle store the new id; from then on every callback of
\* the session (the line, error and close listeners of the subprocess and the
\* handler they call) acts on the new id.
C35_MigrationAtomic ==
  [][\A p \in K :
       /\ (call[p].sessionId = T(p) /\ call'[p].sessionId = S(p))
          => /\ ~MapHas(sessions', T(p))
             /\ ~SetHas(processes', T(p))
             /\ ~SetHas(handlers', T(p))
             /\ MapHas(sessions', S(p))
             /\ SetHas(processes', S(p))
             /\ SetHas(handlers', S(p))
             /\ sessionInfo'[MapGet(sessions', S(p)).obj].sessionId = S(p)
             /\ processInfo'[SetGet(processes', S(p)).proc].sessionId = S(p)
             /\ SetGet(handlers', S(p)).sid = S(p)
       /\ ( /\ last'.ev \in LineEvents \cup {"exit", "procError"}
            /\ last'.proc = p
            /\ call[p].sessionId = S(p)
            /\ SetHas(handlers, S(p)) )
          => /\ last'.key = S(p)
             /\ last'.hsid = S(p)]_vars

C37_UpdateKindsClosed ==
  \A i \in 1..Len(out) :
    out[i].type = PromptUpdate
    => /\ out[i].update.kind \in
            {"agent_message_chunk", "thought_chunk", "tool_call", "tool_call_update",
             "plan", "available_commands", "current_mode_update", "config_options"}
       /\ out[i].update.sessionUpdate = "-"

\* C38: a session does not outlive its connection. When the socket of a
\* connection has closed while its create or initialize handler awaited the
\* agent's handshake, then once the handler finishes the session it made is
\* closed and its subprocess killed, not left active without a connection.
C38_SessionDoesNotOutliveConnection ==
  [][\A k \in K :
       ( /\ call[k].pc \in {AwaitOf(m) : m \in Methods}
         /\ call'[k].pc = "done"
         /\ call[k].conn \notin connections )
       => LET sid == call'[k].sessionId
          IN /\ MapHas(sessions', sid)
                => sessionInfo'[MapGet(sessions', sid).obj].status = "closed"
             /\ SetHas(processes', sid)
                => \/ processInfo'[SetGet(processes', sid).proc].killed
                   \/ processInfo'[SetGet(processes', sid).proc].os # "running"]_vars

\* C39: closing a session at its owner's request produces no
\* acp:session:error: when the subprocess of a session whose handshake is
\* done exits by the SIGTERM of the close the owner asked for, the exit is not
\* reported to the client.
C39_RequestedCloseReportsNoError ==
  [][\A p \in K :
       ( /\ last'.ev = "exit"
         /\ last'.proc = p
         /\ last'.code = "null"
         /\ call[p].pc = "done"
         /\ processInfo[p].killed
         /\ \E i \in 1..Len(killWaiters[p]) :
              /\ killWaiters[p][i].after.c = "closeReq"
              /\ killWaiters[p][i].after.conn = sessionInfo[p].connectionId
              /\ killWaiters[p][i].after.sid = processInfo[p].sessionId )
       => \A i \in 1..Len(out') : out'[i].type # SessionError]_vars

\* C40: the notification handlers belong to sessions of the session table:
\* no handler is registered under an id that is not a key of the session
\* table (so none remains once a session has been closed and removed), and
\* no id has more than one handler.
C40_HandlersOnlyForSessions ==
  \A h \in notificationHandlers :
    /\ MapHas(sessions, h.key)
    /\ \A g \in notificationHandlers : g.key = h.key => g = h

====
